---- MODULE Spec2Model ----
(***************************************************************************)
(* A model of libkirum: the language tree (a directed graph of Lexis nodes *)
(* and TreeEtymology edges), its compute_lexicon fixed point, the          *)
(* Transform / GlobalTransform guards and the LexisMatch predicates.       *)
(*                                                                         *)
(* Conventions.  Option<T> is a sequence: <<>> is None, <<x>> is Some(x).  *)
(* A Rust String that the code takes apart (a Lemma's value) is a sequence *)
(* of one-character strings; a String that is only compared (language,    *)
(* id, tag, ...) is a TLA+ string.  A HashMap is a function.               *)
(***************************************************************************)
EXTENDS Integers, Sequences, FiniteSets, TLC

VARIABLES
    nodes,              \* LanguageTree.graph: the node weights (Lexis), in NodeIndex order
    edges,              \* LanguageTree.graph: the edges (source, target, TreeEtymology), in EdgeIndex order
    global_transforms,  \* LanguageTree.global_transforms: Option<Vec<GlobalTransform>>
    pc,                 \* where the caller is: "idle", or "loop" inside compute_lexicon
    updated,            \* compute_lexicon: the keys of the local map `updated`
    node,               \* compute_lexicon: position of `for node in self.graph.node_indices()`
    changes,            \* compute_lexicon: the local counter `changes`
    rendered_word,      \* compute_lexicon: the local `rendered_word` of the latest visit (Option<Lemma>)
    result,             \* what the latest finished compute_lexicon returned, "Ok" or "Err"; "none" once the caller has changed the tree
    computes,           \* number of compute_lexicon calls started
    fn_arg,             \* arguments of the function under test, or of the caller's latest call on the tree
    fn_ret              \* its return value(s)

vars == <<nodes, edges, global_transforms, pc, updated, node, changes,
          rendered_word, result, computes, fn_arg, fn_ret>>

tree_vars == <<nodes, edges, global_transforms, pc, updated, node, changes,
               rendered_word, result, computes>>

(***************************************************************************)
(* Option and sequence helpers                                             *)
(***************************************************************************)
None == <<>>

Some(x) == <<x>>

is_some(o) == o # <<>>

is_none(o) == o = <<>>

unwrap(o) == o[1]

contains(v, x) == \E i \in 1..Len(v) : v[i] = x

\* `let v = x;` followed by F(v): x is evaluated once
with(x, F(_)) == CHOOSE y \in {F(v) : v \in {x}} : TRUE

RECURSIVE Flatten(_)
Flatten(ss) == IF ss = <<>> THEN <<>> ELSE Head(ss) \o Flatten(Tail(ss))

Range(f) == {f[x] : x \in DOMAIN f}

(***************************************************************************)
(* Lemma (lemma.rs): a String of graphemes, each followed by WORD_SEP.     *)
(***************************************************************************)
WORD_SEP == "|"

\* impl From<Vec<String>> for Lemma: empty parts and lone separators are
\* skipped, every other part is appended followed by WORD_SEP.
RECURSIVE Lemma_from_vec(_)
Lemma_from_vec(value) ==
    IF value = <<>> THEN <<>>
    ELSE LET part == Head(value) IN
         IF part = <<WORD_SEP>> \/ part = <<>>
         THEN Lemma_from_vec(Tail(value))
         ELSE part \o <<WORD_SEP>> \o Lemma_from_vec(Tail(value))

\* str::split(WORD_SEP): the pieces between separators, empty pieces included.
RECURSIVE split_sep(_, _)
split_sep(s, cur) ==
    IF s = <<>> THEN <<cur>>
    ELSE IF Head(s) = WORD_SEP THEN <<cur>> \o split_sep(Tail(s), <<>>)
    ELSE split_sep(Tail(s), Append(cur, Head(s)))

\* impl From<Lemma> for Vec<String>: split on WORD_SEP, drop the empty pieces.
Lemma_into_vec(lemma) == SelectSeq(split_sep(lemma, <<>>), LAMBDA c : c # <<>>)

\* Lemma::chars
Lemma_chars(lemma) == Lemma_into_vec(lemma)

\* Lemma::string_without_sep
string_without_sep(lemma) == SelectSeq(lemma, LAMBDA c : c # WORD_SEP)

\* Lemma::add_prefix
add_prefix(lemma, prefix) == prefix \o lemma

\* Lemma::add_postfix
add_postfix(lemma, postfix) == lemma \o postfix

\* Lemma::is_empty
Lemma_is_empty(lemma) == lemma = <<>>

\* Lemma::push_char
push_char(lemma, pushed) ==
    IF ~Lemma_is_empty(lemma)
    THEN Lemma_from_vec(Append(Lemma_into_vec(lemma), pushed))
    ELSE pushed

\* Lemma::push
Lemma_push(lemma, pushed) ==
    IF ~Lemma_is_empty(lemma)
    THEN Lemma_from_vec(Lemma_into_vec(lemma) \o Lemma_into_vec(pushed))
    ELSE pushed

\* impl From<&str> for Lemma, for strings of one-codepoint graphemes
Lemma_from_str(s) == Lemma_from_vec([i \in 1..Len(s) |-> <<s[i]>>])

(***************************************************************************)
(* Match predicates (matching.rs)                                          *)
(* ValueMatch: [vm |-> "Equals", ev |-> "String", s |-> x, v |-> <<>>],    *)
(*             [vm |-> "Equals", ev |-> "Vector", s |-> "", v |-> list],   *)
(*             [vm |-> "OneOf",  ev |-> "Vector", s |-> "", v |-> list].   *)
(* Value:      [tag |-> "Match" or "Not", m |-> ValueMatch].               *)
(***************************************************************************)
EqualsString(x) == [vm |-> "Equals", ev |-> "String", s |-> x, v |-> <<>>]

EqualsVector(list) == [vm |-> "Equals", ev |-> "Vector", s |-> "", v |-> list]

OneOf(list) == [vm |-> "OneOf", ev |-> "Vector", s |-> "", v |-> list]

Match(m) == [tag |-> "Match", m |-> m]

Not(m) == [tag |-> "Not", m |-> m]

\* impl ToString for PartOfSpeech
PartOfSpeech_to_string(pos) ==
    CASE pos = "Adjective" -> "adjective"
      [] pos = "Noun" -> "noun"
      [] pos = "Verb" -> "verb"

\* impl PartialEq<String> for ValueMatch
ValueMatch_eq_String(self, other) ==
    IF self.vm = "Equals"
    THEN IF self.ev = "Vector" THEN FALSE ELSE self.s = other
    ELSE contains(self.v, other)

\* impl PartialEq<PartOfSpeech> for ValueMatch
ValueMatch_eq_PartOfSpeech(self, other) ==
    ValueMatch_eq_String(self, PartOfSpeech_to_string(other))

\* impl PartialEq<Vec<String>> for ValueMatch
ValueMatch_eq_Vec(self, other) ==
    IF self.vm = "OneOf"
    THEN \E i \in 1..Len(self.v) : contains(other, self.v[i])
    ELSE IF self.ev = "Vector"
         THEN \A i \in 1..Len(self.v) : contains(other, self.v[i])
         ELSE FALSE

\* ValueMatch == T, by the type T of the field: the PartialEq impl chosen
ValueMatch_eq(self, other, ty) ==
    CASE ty = "String" -> ValueMatch_eq_String(self, other)
      [] ty = "PartOfSpeech" -> ValueMatch_eq_PartOfSpeech(self, other)
      [] ty = "Vec" -> ValueMatch_eq_Vec(self, other)

\* Value::is_true
is_true(self, val, ty) ==
    IF self.tag = "Match"
    THEN ValueMatch_eq(self.m, val, ty)
    ELSE ~ValueMatch_eq(self.m, val, ty)

\* value_matches: an absent predicate matches everything
value_matches(val, to_match, ty) ==
    IF is_some(val)
    THEN IF is_true(unwrap(val), to_match, ty) THEN TRUE ELSE FALSE
    ELSE TRUE

\* impl Default for LexisMatch
LexisMatch_default ==
    [id |-> None, word |-> None, language |-> None, pos |-> None,
     lexis_type |-> None, archaic |-> None, tags |-> None]

\* impl PartialEq<Lexis> for LexisMatch.  The first `if let` of the body ends
\* its blocks with `;`, so it is a statement whose value is dropped: the word
\* predicate is evaluated and discarded.  The value of the function is the
\* `&`-chain that follows, which never reads self.id, and reads self.pos only
\* when the Lexis has a part of speech.
LexisMatch_eq(self, other) ==
    /\ value_matches(self.language, other.language, "String")
    /\ (IF is_some(other.pos)
        THEN value_matches(self.pos, unwrap(other.pos), "PartOfSpeech")
        ELSE TRUE)
    /\ value_matches(self.lexis_type, other.lexis_type, "String")
    /\ (IF is_some(self.archaic) THEN unwrap(self.archaic) = other.archaic ELSE TRUE)
    /\ value_matches(self.tags, other.tags, "Vec")

\* LexisMatch::matches, which transforms.rs calls on its guards; matching.rs
\* does not define it.  Modelled from the specification (4.3): the LexisMatch
\* matches iff every non-absent field predicate is true, a field the Lexis
\* does not have being compared as the empty string.
matches(self, lex) ==
    /\ value_matches(self.id, lex.id, "String")
    /\ value_matches(self.word,
                     IF is_some(lex.word) THEN string_without_sep(unwrap(lex.word))
                                          ELSE <<>>,
                     "String")
    /\ value_matches(self.language, lex.language, "String")
    /\ (IF is_some(lex.pos)
        THEN value_matches(self.pos, unwrap(lex.pos), "PartOfSpeech")
        ELSE value_matches(self.pos, "", "String"))
    /\ value_matches(self.lexis_type, lex.lexis_type, "String")
    /\ (IF is_some(self.archaic) THEN unwrap(self.archaic) = lex.archaic ELSE TRUE)
    /\ value_matches(self.tags, lex.tags, "Vec")

(***************************************************************************)
(* Lexis (kirum.rs)                                                        *)
(***************************************************************************)
\* impl Default for Lexis (derived)
Lexis_default ==
    [id |-> "", word |-> None, language |-> "", pos |-> None, lexis_type |-> "",
     definition |-> "", archaic |-> FALSE, tags |-> <<>>,
     historical_metadata |-> <<>>, word_create |-> None]

\* impl PartialEq for Lexis: every field but historical_metadata
Lexis_eq(self, other) ==
    /\ self.id = other.id
    /\ self.word = other.word
    /\ self.language = other.language
    /\ self.pos = other.pos
    /\ self.lexis_type = other.lexis_type
    /\ self.definition = other.definition
    /\ self.archaic = other.archaic
    /\ self.tags = other.tags
    /\ self.word_create = other.word_create

\* HashMap::extend: the pairs of `other` are inserted, replacing equal keys
extend(map, other) ==
    [k \in (DOMAIN map) \cup (DOMAIN other) |->
        IF k \in DOMAIN other THEN other[k] ELSE map[k]]

(***************************************************************************)
(* Transform primitives, Transform and GlobalTransform (transforms.rs)     *)
(* A fallible call returns [ok |-> BOOLEAN, lex |-> the Lexis as the call  *)
(* left it]; ok = FALSE is Err(TransformError).                            *)
(***************************************************************************)
Prefix(value) == [kind |-> "Prefix", value |-> value, file |-> ""]

Postfix(value) == [kind |-> "Postfix", value |-> value, file |-> ""]

Loanword == [kind |-> "Loanword", value |-> <<>>, file |-> ""]

RhaiScript(file) == [kind |-> "RhaiScript", value |-> <<>>, file |-> file]

\* The script files of the environment: evaluating a file that is not there
\* is Err(EvalError); no file of this environment evaluates successfully.
ScriptFiles == {}

\* TransformFunc::transform: a no-op on a Lexis without a word
TransformFunc_transform(self, current_word) ==
    IF is_none(current_word.word) THEN [ok |-> TRUE, lex |-> current_word]
    ELSE LET current == unwrap(current_word.word) IN
         CASE self.kind = "Postfix" ->
                [ok |-> TRUE,
                 lex |-> [current_word EXCEPT !.word = Some(add_postfix(current, self.value))]]
           [] self.kind = "Prefix" ->
                [ok |-> TRUE,
                 lex |-> [current_word EXCEPT !.word = Some(add_prefix(current, self.value))]]
           [] self.kind = "Loanword" ->
                [ok |-> TRUE, lex |-> current_word]
           [] self.kind = "RhaiScript" ->
                IF self.file \in ScriptFiles
                THEN [ok |-> TRUE, lex |-> current_word]
                ELSE [ok |-> FALSE, lex |-> current_word]

\* the `?` operator: an Err is returned at once, an Ok value goes on into F
try(r, F(_)) == with(r, LAMBDA v : IF v.ok THEN F(v.lex) ELSE v)

\* `for transform in &self.transforms { transform.transform(etymon)?; }`
RECURSIVE apply_funcs(_, _)
apply_funcs(funcs, lex) ==
    IF funcs = <<>> THEN [ok |-> TRUE, lex |-> lex]
    ELSE try(TransformFunc_transform(Head(funcs), lex),
             LAMBDA l : apply_funcs(Tail(funcs), l))

\* `Ok(true)` after the loop over the primitives, or the Err the loop left with
Ok_true(r) == with(r, LAMBDA v : [ok |-> v.ok, applied |-> TRUE, lex |-> v.lex])

\* Transform::transform_option: [ok, applied, lex]; Ok(applied) when ok
transform_option_skipping_guard(self, etymon) ==
    Ok_true(apply_funcs(self.transforms, etymon))

transform_option(self, etymon) ==
    LET can_transform == IF is_some(self.lex_match)
                         THEN matches(unwrap(self.lex_match), etymon)
                         ELSE TRUE
    IN IF can_transform
       THEN Ok_true(apply_funcs(self.transforms, etymon))
       ELSE [ok |-> TRUE, applied |-> FALSE, lex |-> etymon]

\* `self.transform_option(etymon)?; Ok(())`
Ok_unit(r) == with(r, LAMBDA v : [ok |-> v.ok, lex |-> v.lex])

\* Transform::transform
Transform_transform(self, etymon) == Ok_unit(transform_option(self, etymon))

\* GlobalTransform::transform; etymon is Option<&Vec<&Lexis>>
GlobalTransform_transform_all_etymons(self, lex, etymon) ==
    LET should_trans ==
            IF is_some(etymon)
            THEN IF is_some(self.etymon_match)
                 THEN \A i \in 1..Len(unwrap(etymon)) :
                         matches(unwrap(self.etymon_match), unwrap(etymon)[i])
                 ELSE TRUE
            ELSE TRUE
    IN IF matches(self.lex_match, lex) /\ should_trans
       THEN apply_funcs(self.transforms, lex)
       ELSE [ok |-> TRUE, lex |-> lex]

GlobalTransform_transform(self, lex, etymon) ==
    LET should_trans ==
            IF is_some(etymon)
            THEN IF is_some(self.etymon_match)
                 THEN \E i \in 1..Len(unwrap(etymon)) :
                         matches(unwrap(self.etymon_match), unwrap(etymon)[i])
                 ELSE TRUE
            ELSE TRUE
    IN IF matches(self.lex_match, lex) /\ should_trans
       THEN apply_funcs(self.transforms, lex)
       ELSE [ok |-> TRUE, lex |-> lex]

\* TreeEtymology::apply_transforms
RECURSIVE apply_transforms(_, _)
apply_transforms(transforms, etymon) ==
    IF transforms = <<>> THEN [ok |-> TRUE, lex |-> etymon]
    ELSE try(Transform_transform(Head(transforms), etymon),
             LAMBDA l : apply_transforms(Tail(transforms), l))

(***************************************************************************)
(* Inputs of the pure-function specifications                              *)
(***************************************************************************)
Only(field, val) == [LexisMatch_default EXCEPT ![field] = Some(val)]

BothTags == {"Match", "Not"}

ValueInputs(field) ==
    LET ms == CASE field = "word" -> {EqualsString(<<"a">>), OneOf(<< <<"b">> >>)}
                [] field = "pos" -> {EqualsString("noun"), OneOf(<<"verb", "noun">>)}
                [] field = "tags" -> {EqualsVector(<<"t1", "t2">>), OneOf(<<"t1", "t3">>),
                                      EqualsString("t1")}
                [] field = "id" -> {EqualsString("x"), OneOf(<<"y", "z">>)}
                [] field = "language" -> {EqualsString("L1"), OneOf(<<"L1", "L3">>),
                                          EqualsVector(<<"L1">>)}
                [] field = "lexis_type" -> {EqualsString("root"), OneOf(<<"stem">>)}
    IN {[tag |-> t, m |-> m] : t \in BothTags, m \in ms}

ValueFields == {"id", "word", "language", "pos", "lexis_type", "tags"}

\* the LexisMatch of tests::test_lexis_match, with L1 for "Old Babylonian"
TestLexisMatch ==
    [LexisMatch_default EXCEPT
        !.language = Some(Match(EqualsString("L1"))),
        !.archaic = Some(FALSE),
        !.tags = Some(Match(OneOf(<<"t1", "t3">>)))]

MatchInputs ==
    UNION {{Only(f, val) : val \in ValueInputs(f)} : f \in ValueFields}
    \cup {LexisMatch_default, TestLexisMatch,
          [LexisMatch_default EXCEPT !.archaic = Some(TRUE)],
          [LexisMatch_default EXCEPT !.archaic = Some(FALSE)]}

LexisInputs ==
    {[Lexis_default EXCEPT !.id = "x", !.word = w, !.language = l, !.pos = p,
                           !.lexis_type = "root", !.tags = t] :
        w \in {None, Some(Lemma_from_str(<<"a">>))},
        l \in {"L1", "L2"},
        p \in {None, Some("Noun")},
        t \in {<<>>, <<"t1", "t2">>}}

\* the LexisMatch with every Match(v) turned into Not(v) and back
Negated(lm) ==
    [f \in DOMAIN lm |->
        IF f \in ValueFields /\ is_some(lm[f])
        THEN Some([unwrap(lm[f]) EXCEPT !.tag = IF @ = "Match" THEN "Not" ELSE "Match"])
        ELSE lm[f]]

TreeUnused ==
    /\ nodes = <<>>
    /\ edges = <<>>
    /\ global_transforms = None
    /\ pc = "idle"
    /\ updated = {}
    /\ node = 0
    /\ changes = 0
    /\ rendered_word = None
    /\ result = "none"
    /\ computes = 0

(***************************************************************************)
(* SpecMatch: LexisMatch == Lexis on drawn inputs                          *)
(***************************************************************************)
InitMatch ==
    /\ TreeUnused
    /\ fn_arg \in {[fn |-> "LexisMatch::eq", self |-> m, lex |-> x] :
                      m \in MatchInputs, x \in LexisInputs}
    /\ fn_ret = [out |-> None, negated |-> None]

\* `self == lex`
CallEq ==
    /\ is_none(fn_ret.out)
    /\ fn_ret' = [fn_ret EXCEPT !.out = Some(LexisMatch_eq(fn_arg.self, fn_arg.lex))]
    /\ UNCHANGED <<fn_arg, tree_vars>>

\* `negated == lex`, negated being self with Match and Not exchanged
CallEqNegated ==
    /\ is_none(fn_ret.negated)
    /\ fn_ret' = [fn_ret EXCEPT
                    !.negated = Some(LexisMatch_eq(Negated(fn_arg.self), fn_arg.lex))]
    /\ UNCHANGED <<fn_arg, tree_vars>>

NextMatch == CallEq \/ CallEqNegated

SpecMatch == InitMatch /\ [][NextMatch]_vars

(***************************************************************************)
(* Claims on LexisMatch (checked under SpecMatch)                          *)
(***************************************************************************)
\* what a field predicate says of a Lexis: the ValueMatch compared with the
\* field (the display string of the word, the lower-case name of the part of
\* speech); a predicate on a field the Lexis does not have is read as the
\* code reads it, as satisfied
PredicateHolds(lm, lex, field) ==
    CASE field = "id" -> is_true(unwrap(lm.id), lex.id, "String")
      [] field = "word" ->
            IF is_some(lex.word)
            THEN is_true(unwrap(lm.word), string_without_sep(unwrap(lex.word)), "String")
            ELSE TRUE
      [] field = "language" -> is_true(unwrap(lm.language), lex.language, "String")
      [] field = "pos" ->
            IF is_some(lex.pos)
            THEN is_true(unwrap(lm.pos), unwrap(lex.pos), "PartOfSpeech")
            ELSE TRUE
      [] field = "lexis_type" -> is_true(unwrap(lm.lexis_type), lex.lexis_type, "String")
      [] field = "tags" -> is_true(unwrap(lm.tags), lex.tags, "Vec")
      [] field = "archaic" -> unwrap(lm.archaic) = lex.archaic

AllFields == ValueFields \cup {"archaic"}

\* C8: a LexisMatch matches a Lexis if and only if every non-absent field
\* predicate (id, word, language, pos, lexis_type, archaic, tags) is true of
\* the corresponding field of the Lexis.
C8_MatchesIffEveryPredicateTrue ==
    is_some(fn_ret.out) =>
        (unwrap(fn_ret.out) <=>
            \A f \in AllFields :
                is_some(fn_arg.self[f]) => PredicateHolds(fn_arg.self, fn_arg.lex, f))

\* the LexisMatch has one predicate only, on a ValueMatch field
SinglePredicate(lm) ==
    /\ is_none(lm.archaic)
    /\ Cardinality({f \in ValueFields : is_some(lm[f])}) = 1

\* C9: for a LexisMatch whose only predicate is Match(v) on one field, the
\* LexisMatch with Not(v) on that field matches a Lexis X if and only if the
\* one with Match(v) does not match X (X may lack a word or a part of speech).
C9_NotInvertsMatch ==
    (/\ is_some(fn_ret.out)
     /\ is_some(fn_ret.negated)
     /\ SinglePredicate(fn_arg.self))
        => (unwrap(fn_ret.negated) <=> ~unwrap(fn_ret.out))

(***************************************************************************)
(* SpecTransform: GlobalTransform::transform and                           *)
(* Transform::transform_option on drawn inputs                             *)
(***************************************************************************)
LanguageIs(l) == [LexisMatch_default EXCEPT !.language = Some(Match(EqualsString(l)))]

k_ == Lemma_from_str(<<"k">>)

s_ == Lemma_from_str(<<"s">>)

TargetInputs ==
    {[Lexis_default EXCEPT !.id = "x", !.word = w, !.language = l,
                           !.historical_metadata = [key \in {"m"} |-> "1"]] :
        w \in {None, Some(Lemma_from_str(<<"a", "b">>))}, l \in {"L1", "L2"}}

EtymonInputs ==
    {[Lexis_default EXCEPT !.id = "e", !.word = Some(Lemma_from_str(<<"a">>)),
                           !.language = l] : l \in {"L1", "L2"}}

\* Option<&Vec<&Lexis>>: not supplied, or a list of zero to two etymons
EtymonListInputs ==
    {None, Some(<<>>)}
    \cup {Some(<<e>>) : e \in EtymonInputs}
    \cup {Some(<<e1, e2>>) : e1 \in EtymonInputs, e2 \in EtymonInputs}

PrimitiveListInputs ==
    {<<Prefix(k_)>>, <<Prefix(k_), Postfix(s_)>>, <<Loanword>>,
     <<Postfix(s_), RhaiScript("missing.rhai")>>}

GlobalTransformInputs ==
    {[lex_match |-> lm, etymon_match |-> em, transforms |-> fs] :
        lm \in {LexisMatch_default, LanguageIs("L1")},
        em \in {None, Some(LanguageIs("L2"))},
        fs \in PrimitiveListInputs}

TransformInputs ==
    {[name |-> "t", lex_match |-> lm, transforms |-> fs] :
        lm \in {None, Some(LanguageIs("L1")), Some(LexisMatch_default)},
        fs \in PrimitiveListInputs}

InitTransform ==
    /\ TreeUnused
    /\ \/ fn_arg \in
            {[fn |-> "GlobalTransform::transform", self |-> g, lex |-> x, etymon |-> es] :
                g \in GlobalTransformInputs, x \in TargetInputs, es \in EtymonListInputs}
       \/ fn_arg \in
            {[fn |-> "Transform::transform_option", self |-> t, lex |-> x, etymon |-> None] :
                t \in TransformInputs, x \in TargetInputs}
    /\ fn_ret = None

\* `self.transform(&mut lex, etymon)`
CallGlobalTransform ==
    /\ fn_arg.fn = "GlobalTransform::transform"
    /\ is_none(fn_ret)
    /\ fn_ret' = Some(GlobalTransform_transform(fn_arg.self, fn_arg.lex, fn_arg.etymon))
    /\ UNCHANGED <<fn_arg, tree_vars>>

\* `self.transform_option(&mut lex)`
CallTransformOption ==
    /\ fn_arg.fn = "Transform::transform_option"
    /\ is_none(fn_ret)
    /\ fn_ret' = Some(transform_option(fn_arg.self, fn_arg.lex))
    /\ UNCHANGED <<fn_arg, tree_vars>>

NextTransform == CallGlobalTransform \/ CallTransformOption

SpecTransform == InitTransform /\ [][NextTransform]_vars

\* the call under test has returned
Returned(fn) == fn_arg.fn = fn /\ is_some(fn_ret)

\* some etymon of the supplied list satisfies the etymon guard
SomeEtymonMatches ==
    /\ is_some(fn_arg.etymon)
    /\ \E i \in 1..Len(unwrap(fn_arg.etymon)) :
          matches(unwrap(fn_arg.self.etymon_match), unwrap(fn_arg.etymon)[i])

\* the Lexis after every primitive of the transform ran on it, in order
AllPrimitivesApplied == apply_funcs(fn_arg.self.transforms, fn_arg.lex).lex

\* C7 as stated: the primitives are applied if and only if the lexis guard
\* matches and either no etymon guard is configured or at least one supplied
\* etymon matches it; otherwise lex is unchanged.
C7_AppliedIffGuards_Stated ==
    Returned("GlobalTransform::transform") =>
        unwrap(fn_ret).lex =
            IF /\ matches(fn_arg.self.lex_match, fn_arg.lex)
               /\ (is_none(fn_arg.self.etymon_match) \/ SomeEtymonMatches)
            THEN AllPrimitivesApplied
            ELSE fn_arg.lex

\* the guards under which GlobalTransform::transform runs its primitives
GuardsAdmit ==
    /\ matches(fn_arg.self.lex_match, fn_arg.lex)
    /\ \/ is_none(fn_arg.self.etymon_match)
       \/ is_none(fn_arg.etymon)
       \/ SomeEtymonMatches

\* C7 amended: the primitives are applied, in order and up to the first one
\* that fails, if and only if the lexis guard matches and either no etymon
\* guard is configured, or no etymon list is supplied at all (etymon = None),
\* or at least one supplied etymon matches the etymon guard; in every other
\* case lex is left unchanged and the call returns Ok.
C7_AppliedIffGuards ==
    Returned("GlobalTransform::transform") =>
        /\ unwrap(fn_ret).lex = IF GuardsAdmit THEN AllPrimitivesApplied ELSE fn_arg.lex
        /\ unwrap(fn_ret).ok =
              (GuardsAdmit => apply_funcs(fn_arg.self.transforms, fn_arg.lex).ok)

\* C7 witness: two etymons are supplied, only the second satisfies the etymon
\* guard, and the primitives changed the word
C7_Witness ==
    /\ Returned("GlobalTransform::transform")
    /\ is_some(fn_arg.self.etymon_match)
    /\ is_some(fn_arg.etymon)
    /\ Len(unwrap(fn_arg.etymon)) = 2
    /\ ~matches(unwrap(fn_arg.self.etymon_match), unwrap(fn_arg.etymon)[1])
    /\ matches(unwrap(fn_arg.self.etymon_match), unwrap(fn_arg.etymon)[2])
    /\ unwrap(fn_ret).lex # fn_arg.lex

\* the guard of the Transform under test rejects the Lexis
GuardRejects ==
    /\ is_some(fn_arg.self.lex_match)
    /\ ~matches(unwrap(fn_arg.self.lex_match), fn_arg.lex)

\* C10: transform_option on a Lexis its guard rejects returns Ok(false) and
\* leaves every field of the Lexis as it was.
C10_RejectedGuardChangesNothing ==
    (Returned("Transform::transform_option") /\ GuardRejects) =>
        /\ unwrap(fn_ret).ok
        /\ ~unwrap(fn_ret).applied
        /\ unwrap(fn_ret).lex = fn_arg.lex

\* C10 witness: the guard rejected a Lexis that the primitives would have changed
C10_Witness ==
    /\ Returned("Transform::transform_option")
    /\ GuardRejects
    /\ apply_funcs(fn_arg.self.transforms, fn_arg.lex).lex # fn_arg.lex

(***************************************************************************)
(* Phonotactic generator (lexcreate.rs).  thread_rng makes create_word     *)
(* nondeterministic: each operator below is the set of values one call can *)
(* return.  A CreateValue is [kind |-> "Phoneme" or "Reference", v |-> _]. *)
(***************************************************************************)
Phoneme(text) == [kind |-> "Phoneme", v |-> text]

Reference(key) == [kind |-> "Reference", v |-> <<key>>]

\* LexPhonology::resolve_phonetic_reference, from `phonetic_acc` on.  The call
\* of random_phoneme for a Reference is written out in place: the picked
\* pattern of the group is resolved from an empty Lemma.
RECURSIVE resolve_phonetic_reference(_, _, _)
\* a resolution that goes on after a reference that resolved to nothing
resolve_phonetic_reference_skipping_unresolved(self, pref, phonetic_acc) ==
    IF pref = <<>>
    THEN {IF Lemma_is_empty(phonetic_acc) THEN None ELSE Some(phonetic_acc)}
    ELSE LET phon == Head(pref)
             single_ref == phon.v[1]
             random_phoneme_of_ref ==
                IF single_ref \in DOMAIN self.groups /\ self.groups[single_ref] # <<>>
                THEN UNION {resolve_phonetic_reference(self, self.groups[single_ref][i], <<>>) :
                               i \in 1..Len(self.groups[single_ref])}
                ELSE {None}
         IN IF phon.kind = "Phoneme"
            THEN resolve_phonetic_reference(self, Tail(pref), push_char(phonetic_acc, phon.v))
            ELSE UNION {IF is_some(found_ref)
                        THEN resolve_phonetic_reference(self, Tail(pref),
                                                        Lemma_push(phonetic_acc, unwrap(found_ref)))
                        ELSE resolve_phonetic_reference(self, Tail(pref), phonetic_acc) :
                        found_ref \in random_phoneme_of_ref}

\* LexPhonology::resolve_phonetic_reference, from `phonetic_acc` on (see above)
resolve_phonetic_reference(self, pref, phonetic_acc) ==
    IF pref = <<>>
    THEN {IF Lemma_is_empty(phonetic_acc) THEN None ELSE Some(phonetic_acc)}
    ELSE LET phon == Head(pref)
             single_ref == phon.v[1]
             random_phoneme_of_ref ==
                IF single_ref \in DOMAIN self.groups /\ self.groups[single_ref] # <<>>
                THEN UNION {resolve_phonetic_reference(self, self.groups[single_ref][i], <<>>) :
                               i \in 1..Len(self.groups[single_ref])}
                ELSE {None}
         IN IF phon.kind = "Phoneme"
            THEN resolve_phonetic_reference(self, Tail(pref), push_char(phonetic_acc, phon.v))
            ELSE UNION {IF is_some(found_ref)
                        THEN resolve_phonetic_reference(self, Tail(pref),
                                                        Lemma_push(phonetic_acc, unwrap(found_ref)))
                        ELSE {None} :
                        found_ref \in random_phoneme_of_ref}

\* LexPhonology::random_phoneme
random_phoneme(self, phoneme_key) ==
    IF phoneme_key \in DOMAIN self.groups /\ self.groups[phoneme_key] # <<>>
    THEN UNION {resolve_phonetic_reference(self, self.groups[phoneme_key][i], <<>>) :
                   i \in 1..Len(self.groups[phoneme_key])}
    ELSE {None}

\* LexPhonology::create_word
create_word(self, lexis_type) ==
    IF lexis_type \in DOMAIN self.lexis_types /\ self.lexis_types[lexis_type] # <<>>
    THEN UNION {resolve_phonetic_reference(self, self.lexis_types[lexis_type][i], <<>>) :
                   i \in 1..Len(self.lexis_types[lexis_type])}
    ELSE {None}

(***************************************************************************)
(* LanguageTree (kirum.rs).  nodes[i] is the Lexis of NodeIndex i; edges[j]*)
(* is [source, target, transforms, intermediate_word, agglutination_order].*)
(* petgraph walks the edges of a node from the most recently added one.    *)
(***************************************************************************)
RECURSIVE edges_directed_from(_, _, _, _)
edges_directed_from(es, n, dir, j) ==
    IF j = 0 THEN <<>>
    ELSE IF (IF dir = "Incoming" THEN es[j].target ELSE es[j].source) = n
         THEN <<j>> \o edges_directed_from(es, n, dir, j - 1)
         ELSE edges_directed_from(es, n, dir, j - 1)

\* Graph::edges_directed(node, dir): the edge indices, latest edge first
edges_directed(es, n, dir) == edges_directed_from(es, n, dir, Len(es))

\* `.map(|e| e.source())`
sources_of(es, inc) == [i \in 1..Len(inc) |-> es[inc[i]].source]

\* Graph::neighbors_directed(node, Incoming): the source of each incoming edge
neighbors_incoming(es, n) == sources_of(es, edges_directed(es, n, "Incoming"))

\* `.map(|e| &self.graph[e]).collect()`
lexes_at(ns, nb) == [i \in 1..Len(nb) |-> ns[nb[i]]]

\* the etymons of a node, in the order neighbors_directed yields them
etymons_of(ns, es, n) == lexes_at(ns, neighbors_incoming(es, n))

\* slice::sort_by_key(|k| k.0): a stable sort, here by insertion
RECURSIVE insert_by_key(_, _)
insert_by_key(sorted, x) ==
    IF sorted = <<>> THEN <<x>>
    ELSE IF x[1] < Head(sorted)[1] THEN <<x>> \o sorted
    ELSE <<Head(sorted)>> \o insert_by_key(Tail(sorted), x)

RECURSIVE sort_by_key(_)
sort_by_key(words) ==
    IF words = <<>> THEN <<>>
    ELSE with(sort_by_key(SubSeq(words, 1, Len(words) - 1)),
              LAMBDA sorted : insert_by_key(sorted, words[Len(words)]))

RECURSIVE insert_by_key_descending(_, _)
insert_by_key_descending(sorted, x) ==
    IF sorted = <<>> THEN <<x>>
    ELSE IF x[1] > Head(sorted)[1] THEN <<x>> \o sorted
    ELSE <<Head(sorted)>> \o insert_by_key_descending(Tail(sorted), x)

RECURSIVE sort_by_key_descending(_)
sort_by_key_descending(words) ==
    IF words = <<>> THEN <<>>
    ELSE with(sort_by_key_descending(SubSeq(words, 1, Len(words) - 1)),
              LAMBDA sorted : insert_by_key_descending(sorted, words[Len(words)]))

\* `words.iter().flat_map(|s| s.1.clone().chars()).collect()`
flat_map_chars(words) ==
    with(words, LAMBDA ws :
         with([i \in 1..Len(ws) |-> Lemma_chars(ws[i][2])], LAMBDA cs : Flatten(cs)))

\* join_string_vectors: sort the (order, Lemma) pairs by order, concatenate
\* their graphemes and build the Lemma from them
join_string_vectors_descending(words) ==
    with(flat_map_chars(sort_by_key_descending(words)), LAMBDA merged : Lemma_from_vec(merged))

join_string_vectors(words) ==
    with(flat_map_chars(sort_by_key(words)), LAMBDA merged : Lemma_from_vec(merged))

\* LanguageTree::combine_maps_for_lex_idx
RECURSIVE extend_all(_, _)
extend_all(map, etys) ==
    IF etys = <<>> THEN map
    ELSE extend_all(IF Head(etys).historical_metadata # <<>>
                    THEN extend(map, Head(etys).historical_metadata)
                    ELSE map,
                    Tail(etys))

combine_maps_for_lex_idx_first_only(ns, es, id) ==
    with(etymons_of(ns, es, id), LAMBDA etys :
         [ns EXCEPT ![id].historical_metadata = extend_all(@, SubSeq(etys, 1, 1))])

combine_maps_for_lex_idx(ns, es, id) ==
    with(etymons_of(ns, es, id), LAMBDA etys :
         [ns EXCEPT ![id].historical_metadata = extend_all(@, etys)])

\* connect_etymology, lines 204-216: the scan for the nodes equal to lex and
\* to etymon; returns <<lex_idx, ety_idx>> as Options
RECURSIVE find_existing(_, _, _, _, _, _)
find_existing(ns, lex, etymon, nx, lex_idx, ety_idx) ==
    IF nx > Len(ns) THEN <<lex_idx, ety_idx>>
    ELSE IF Lexis_eq(ns[nx], lex) /\ is_none(lex_idx)
         THEN find_existing(ns, lex, etymon, nx + 1, Some(nx), ety_idx)
    ELSE IF Lexis_eq(ns[nx], etymon) /\ is_none(ety_idx)
         THEN find_existing(ns, lex, etymon, nx + 1, lex_idx, Some(nx))
    ELSE IF is_some(ety_idx) /\ is_some(lex_idx)
         THEN <<lex_idx, ety_idx>>
    ELSE find_existing(ns, lex, etymon, nx + 1, lex_idx, ety_idx)

\* LanguageTree::connect_etymology: the graph after the call, [nodes, edges]
connect_etymology(ns, es, lex, etymon, trans, agglutination_order) ==
    LET ns0 == IF Len(ns) = 0 THEN <<lex, etymon>> ELSE ns
        found == IF Len(ns) = 0 THEN <<Some(1), Some(2)>>
                 ELSE find_existing(ns, lex, etymon, 1, None, None)
        ns1 == IF is_none(found[2]) THEN Append(ns0, etymon) ELSE ns0
        ety_idx == IF is_none(found[2]) THEN Len(ns1) ELSE unwrap(found[2])
        ns2 == IF is_none(found[1]) THEN Append(ns1, lex) ELSE ns1
        lex_idx == IF is_none(found[1]) THEN Len(ns2) ELSE unwrap(found[1])
    IN [nodes |-> ns2,
        edges |-> Append(es, [source |-> ety_idx, target |-> lex_idx,
                              transforms |-> trans, intermediate_word |-> None,
                              agglutination_order |-> agglutination_order])]

(***************************************************************************)
(* compute_lexicon, one iteration of `for node in self.graph.node_indices()`*)
(* The operators pass on t, the state of the call:                         *)
(* [ok, nodes, edges, updated, changes, rendered_word]; ok = FALSE when a  *)
(* `?` has left the function with Err.                                     *)
(***************************************************************************)
\* lines 261-271: gen is what create_word returned
generate_word(t, n, gen) ==
    IF is_some(t.nodes[n].word_create) /\ is_none(t.nodes[n].word) /\ is_some(gen)
    THEN [t EXCEPT !.nodes[n].word = gen]
    ELSE t

\* lines 273-285: the scan of the incoming edges, which stops at the first
\* edge without an intermediate word
RECURSIVE scan_incoming_skipping_unpopulated(_, _, _, _)
scan_incoming_skipping_unpopulated(es, inc, etymons_in_lex, upstreams) ==
    IF inc = <<>>
    THEN [is_ready |-> TRUE, etymons_in_lex |-> etymons_in_lex, upstreams |-> upstreams]
    ELSE LET edge == es[Head(inc)] IN
         IF is_none(edge.intermediate_word)
         THEN scan_incoming_skipping_unpopulated(es, Tail(inc), etymons_in_lex + 1, upstreams)
         ELSE LET order == IF is_some(edge.agglutination_order)
                           THEN unwrap(edge.agglutination_order) ELSE 0
              IN scan_incoming_skipping_unpopulated(
                    es, Tail(inc), etymons_in_lex + 1,
                    Append(upstreams, <<order, unwrap(edge.intermediate_word)>>))

RECURSIVE scan_incoming(_, _, _, _)
scan_incoming(es, inc, etymons_in_lex, upstreams) ==
    IF inc = <<>>
    THEN [is_ready |-> TRUE, etymons_in_lex |-> etymons_in_lex, upstreams |-> upstreams]
    ELSE LET edge == es[Head(inc)] IN
         IF is_none(edge.intermediate_word)
         THEN [is_ready |-> FALSE, etymons_in_lex |-> etymons_in_lex + 1,
               upstreams |-> upstreams]
         ELSE LET order == IF is_some(edge.agglutination_order)
                           THEN unwrap(edge.agglutination_order) ELSE 0
              IN scan_incoming(es, Tail(inc), etymons_in_lex + 1,
                               Append(upstreams, <<order, unwrap(edge.intermediate_word)>>))

\* lines 289-294, without the insertion into `updated`
set_rendered_word_unmarked(t, n, rendered_word_) ==
    with(rendered_word_, LAMBDA rendered :
         [t EXCEPT !.changes = @ + 1,
                   !.nodes[n].word = Some(rendered),
                   !.rendered_word = Some(rendered)])

\* lines 289-294: the word of the node is the joined upstream forms
set_rendered_word(t, n, rendered_word_) ==
    with(rendered_word_, LAMBDA rendered :
         [t EXCEPT !.changes = @ + 1,
                   !.nodes[n].word = Some(rendered),
                   !.updated = @ \cup {n},
                   !.rendered_word = Some(rendered)])

\* line 298
merge_metadata(t_, n) ==
    with(t_, LAMBDA t : [t EXCEPT !.nodes = combine_maps_for_lex_idx(t.nodes, t.edges, n)])

\* lines 303-307: the global transforms, applied in turn to the clone `updating`
RECURSIVE apply_globals(_, _, _)
apply_globals(gt, updating, etys) ==
    IF gt = <<>> THEN [ok |-> TRUE, lex |-> updating]
    ELSE try(GlobalTransform_transform(Head(gt), updating, Some(etys)),
             LAMBDA l : apply_globals(Tail(gt), l, etys))

\* line 308, with the error of a global transform dropped instead of returned
store_updating_dropping_error(t, n, updating) ==
    with(updating, LAMBDA r : IF r.ok THEN [t EXCEPT !.nodes[n] = r.lex] ELSE t)

\* line 308, reached only if no global transform failed
store_updating(t, n, updating) ==
    with(updating, LAMBDA r :
         IF r.ok THEN [t EXCEPT !.nodes[n] = r.lex] ELSE [t EXCEPT !.ok = FALSE])

\* lines 300-309
check_global_transforms(t_, gts, n) ==
    with(t_, LAMBDA t :
         IF is_some(gts)
         THEN with(etymons_of(t.nodes, t.edges, n), LAMBDA etys :
                   store_updating(t, n, apply_globals(unwrap(gts), t.nodes[n], etys)))
         ELSE t)

\* lines 287-316, resolving a node as soon as one incoming edge is populated
resolve_scanned_when_any_populated(t, gts, n, scan) ==
    IF scan.etymons_in_lex > 0 /\ scan.upstreams # <<>>
    THEN check_global_transforms(
            merge_metadata(set_rendered_word(t, n, join_string_vectors(scan.upstreams)), n),
            gts, n)
    ELSE IF is_some(t.nodes[n].word) /\ scan.etymons_in_lex = 0
         THEN [t EXCEPT !.changes = @ + 1, !.updated = @ \cup {n}]
         ELSE t

\* lines 287-316, with the outcome of the scan
resolve_scanned(t, gts, n, scan) ==
    IF scan.etymons_in_lex > 0 /\ scan.is_ready
    THEN check_global_transforms(
            merge_metadata(set_rendered_word(t, n, join_string_vectors(scan.upstreams)), n),
            gts, n)
    ELSE IF is_some(t.nodes[n].word) /\ scan.etymons_in_lex = 0
         THEN [t EXCEPT !.changes = @ + 1, !.updated = @ \cup {n}]
         ELSE t

\* lines 258-317, leaving alone a node that has a word
resolve_node_keeping_words(t, gts, n, gen) ==
    IF is_some(t.nodes[n].word)
    THEN [t EXCEPT !.changes = @ + 1, !.updated = @ \cup {n}]
    ELSE with(edges_directed(t.edges, n, "Incoming"), LAMBDA inc :
              with(scan_incoming(t.edges, inc, 0, <<>>), LAMBDA scan :
                   resolve_scanned(generate_word(t, n, gen), gts, n, scan)))

\* lines 258-317: the node is not in `updated`
resolve_node(t, gts, n, gen) ==
    with(edges_directed(t.edges, n, "Incoming"), LAMBDA inc :
         with(scan_incoming(t.edges, inc, 0, <<>>), LAMBDA scan :
              resolve_scanned(generate_word(t, n, gen), gts, n, scan)))

\* lines 321-335: the intermediate word of each outgoing edge that has none
RECURSIVE trickle_down(_, _, _)
\* lines 328-334, with the transforms applied to the node itself, not to a clone
set_intermediate_word_of_node(t, n, out, temp_ref) ==
    with(temp_ref, LAMBDA r :
         IF r.ok
         THEN trickle_down([t EXCEPT !.edges[Head(out)].intermediate_word = r.lex.word,
                                     !.nodes[n] = r.lex,
                                     !.changes = @ + 1],
                           n, Tail(out))
         ELSE [t EXCEPT !.ok = FALSE])

\* lines 328-334, r being what apply_transforms made of the clone of the node
set_intermediate_word(t, n, out, temp_ref) ==
    with(temp_ref, LAMBDA r :
         IF r.ok
         THEN trickle_down([t EXCEPT !.edges[Head(out)].intermediate_word = r.lex.word,
                                     !.changes = @ + 1],
                           n, Tail(out))
         ELSE [t EXCEPT !.ok = FALSE])

trickle_down_counting_populated(t, n, out) ==
    IF out = <<>> THEN t
    ELSE IF is_some(t.edges[Head(out)].intermediate_word)
         THEN trickle_down([t EXCEPT !.changes = @ + 1], n, Tail(out))
         ELSE set_intermediate_word(t, n, out,
                                    apply_transforms(t.edges[Head(out)].transforms, t.nodes[n]))

\* lines 321-335, with the transforms applied to the word as it was rendered,
\* before the global transforms
trickle_down_from_rendered(t, n, out) ==
    IF out = <<>> THEN t
    ELSE IF is_some(t.edges[Head(out)].intermediate_word)
         THEN trickle_down(t, n, Tail(out))
         ELSE set_intermediate_word(t, n, out,
                                    apply_transforms(t.edges[Head(out)].transforms,
                                                     IF is_some(t.rendered_word)
                                                     THEN [t.nodes[n] EXCEPT !.word = t.rendered_word]
                                                     ELSE t.nodes[n]))

\* lines 321-335
trickle_down(t, n, out) ==
    IF out = <<>> THEN t
    ELSE IF is_some(t.edges[Head(out)].intermediate_word)
         THEN trickle_down(t, n, Tail(out))
         ELSE set_intermediate_word(t, n, out,
                                    apply_transforms(t.edges[Head(out)].transforms, t.nodes[n]))

\* lines 320-337
trickle(t_, n) ==
    with(t_, LAMBDA t :
         IF t.ok /\ n \in t.updated
         THEN with(edges_directed(t.edges, n, "Outgoing"), LAMBDA out : trickle_down(t, n, out))
         ELSE t)

\* lines 253-338: the body of the loop for one node
visit_node(t, gts, n, gen) ==
    trickle(IF n \notin t.updated THEN resolve_node(t, gts, n, gen) ELSE t, n)

(***************************************************************************)
(* Spec: a caller builds a tree with connect_etymology and runs            *)
(* compute_lexicon on it, one node visit per step                          *)
(***************************************************************************)
MaxEdges == 2

MaxComputes == 2

g_ == Lemma_from_str(<<"g">>)

h_ == Lemma_from_str(<<"h">>)

\* the Lexis values the caller connects
LexPool ==
    {[Lexis_default EXCEPT !.id = "p", !.word = Some(Lemma_from_str(<<"a">>)),
                           !.language = "L1", !.lexis_type = "root",
                           !.historical_metadata = [key \in {"k"} |-> "1"]],
     [Lexis_default EXCEPT !.id = "q", !.language = "L2", !.lexis_type = "word"],
     [Lexis_default EXCEPT !.id = "r", !.language = "L1", !.lexis_type = "word",
                           !.historical_metadata = [key \in {"k", "j"} |-> "2"],
                           !.word_create = Some("t")]}

T_prefix == [name |-> "pre", lex_match |-> None, transforms |-> <<Prefix(k_)>>]

T_guarded == [name |-> "post", lex_match |-> Some(LanguageIs("L1")),
              transforms |-> <<Postfix(s_)>>]

T_script == [name |-> "script", lex_match |-> None,
             transforms |-> <<RhaiScript("missing.rhai")>>]

\* the (trans, agglutination_order) arguments the caller passes
EdgeKinds ==
    {[trans |-> <<T_prefix>>, agglutination_order |-> None],
     [trans |-> <<T_guarded>>, agglutination_order |-> Some(0)],
     [trans |-> <<>>, agglutination_order |-> Some(-1)],
     [trans |-> <<T_script>>, agglutination_order |-> Some(1)]}

\* the values the caller gives to global_transforms
GlobalConfigs ==
    {None,
     Some(<<[lex_match |-> LanguageIs("L1"), etymon_match |-> None,
             transforms |-> <<Prefix(g_)>>],
            [lex_match |-> LanguageIs("L2"), etymon_match |-> Some(LanguageIs("L1")),
             transforms |-> <<Postfix(h_)>>]>>)}

\* LanguageTree.word_creator_phonology as the caller set it: the second
\* pattern of lexis type "t" refers to a group that is not defined
word_creator_phonology ==
    [groups |-> [key \in {"V"} |-> << <<Phoneme(<<"b">>)>> >>],
     lexis_types |-> [key \in {"t"} |-> << <<Reference("V")>>, <<Reference("X")>> >>]]

Init ==
    /\ nodes = <<>>
    /\ edges = <<>>
    /\ global_transforms \in GlobalConfigs
    /\ pc = "idle"
    /\ updated = {}
    /\ node = 0
    /\ changes = 0
    /\ rendered_word = None
    /\ result = "none"
    /\ computes = 0
    /\ fn_arg = None
    /\ fn_ret = None

\* tree.connect_etymology(lex, etymon, trans, agglutination_order)
ConnectEtymology ==
    /\ pc = "idle"
    /\ Len(edges) < MaxEdges
    /\ \E lex \in LexPool, etymon \in LexPool, kind \in EdgeKinds :
          /\ LET g == connect_etymology(nodes, edges, lex, etymon, kind.trans,
                                        kind.agglutination_order)
             IN /\ nodes' = g.nodes
                /\ edges' = g.edges
          /\ fn_arg' = Some([fn |-> "connect_etymology", lex |-> lex, etymon |-> etymon,
                              trans |-> kind.trans,
                              agglutination_order |-> kind.agglutination_order])
    /\ result' = "none"
    /\ UNCHANGED <<global_transforms, pc, updated, node, changes, rendered_word,
                   computes, fn_ret>>

\* tree.compute_lexicon() is called: lines 248-251, up to the first node
ComputeStart ==
    /\ pc = "idle"
    /\ computes < MaxComputes
    /\ pc' = "loop"
    /\ computes' = computes + 1
    /\ updated' = {}
    /\ changes' = 0
    /\ node' = 1
    /\ rendered_word' = None
    /\ UNCHANGED <<nodes, edges, global_transforms, result, fn_arg, fn_ret>>

\* what create_word returns in this visit, if it is called (lines 261-264)
new_gen(n) ==
    IF n \notin updated /\ is_some(nodes[n].word_create) /\ is_none(nodes[n].word)
    THEN create_word(word_creator_phonology, unwrap(nodes[n].word_create))
    ELSE {None}

\* lines 253-338 for the node at hand; an Err leaves the function (`?`)
VisitNode ==
    /\ pc = "loop"
    /\ node <= Len(nodes)
    /\ \E gen \in new_gen(node) :
          \E t \in {visit_node([ok |-> TRUE, nodes |-> nodes, edges |-> edges,
                                updated |-> updated, changes |-> changes,
                                rendered_word |-> None],
                               global_transforms, node, gen)} :
             /\ nodes' = t.nodes
             /\ edges' = t.edges
             /\ updated' = t.updated
             /\ changes' = t.changes
             /\ rendered_word' = t.rendered_word
             /\ IF t.ok
                THEN /\ node' = node + 1
                     /\ UNCHANGED <<pc, result>>
                ELSE /\ pc' = "idle"
                     /\ result' = "Err"
                     /\ UNCHANGED node
    /\ UNCHANGED <<global_transforms, computes, fn_arg, fn_ret>>

\* lines 250-251 and 341-343: a pass made changes, the while loop goes round
NextPass ==
    /\ pc = "loop"
    /\ node > Len(nodes)
    /\ changes # 0
    /\ changes' = 0
    /\ node' = 1
    /\ rendered_word' = None
    /\ UNCHANGED <<nodes, edges, global_transforms, pc, updated, result, computes,
                   fn_arg, fn_ret>>

\* lines 341-345, with Ok(()) after any pass, whether it made changes or not
Return_after_any_pass ==
    /\ pc = "loop"
    /\ node > Len(nodes)
    /\ pc' = "idle"
    /\ result' = "Ok"
    /\ rendered_word' = None
    /\ UNCHANGED <<nodes, edges, global_transforms, updated, node, changes, computes,
                   fn_arg, fn_ret>>

\* lines 341-345: a pass without changes, Ok(())
Return ==
    /\ pc = "loop"
    /\ node > Len(nodes)
    /\ changes = 0
    /\ pc' = "idle"
    /\ result' = "Ok"
    /\ rendered_word' = None
    /\ UNCHANGED <<nodes, edges, global_transforms, updated, node, changes, computes,
                   fn_arg, fn_ret>>

Next == ConnectEtymology \/ ComputeStart \/ VisitNode \/ NextPass \/ Return

Spec == Init /\ [][Next]_vars

\* compute_lexicon is sequential code: once called it keeps running
FairSpec == Spec /\ WF_vars(VisitNode) /\ WF_vars(NextPass) /\ WF_vars(Return)

(***************************************************************************)
(* Claims on compute_lexicon (checked under Spec and FairSpec)             *)
(***************************************************************************)
\* the nodes from which n is reached along the edges
RECURSIVE closure(_, _)
closure(es, S) ==
    LET S2 == S \cup {es[j].source : j \in {i \in 1..Len(es) : es[i].target \in S}}
    IN IF S2 = S THEN S ELSE closure(es, S2)

Ancestors(n) == closure(edges, {edges[j].source : j \in {i \in 1..Len(edges) : edges[i].target = n}})

OnCycle == {n \in 1..Len(nodes) : n \in Ancestors(n)}

HasCycle == OnCycle # {}

\* compute_lexicon has returned and the caller has not touched the tree since
Returned_Ok == pc = "idle" /\ result = "Ok"

CanFail(funcs) ==
    \E i \in 1..Len(funcs) : funcs[i].kind = "RhaiScript" /\ funcs[i].file \notin ScriptFiles

\* no transform of the tree, on an edge or global, has a primitive that fails
NoFailingTransform ==
    /\ \A j \in 1..Len(edges) :
          \A i \in 1..Len(edges[j].transforms) : ~CanFail(edges[j].transforms[i].transforms)
    /\ is_some(global_transforms) =>
          \A i \in 1..Len(unwrap(global_transforms)) :
             ~CanFail(unwrap(global_transforms)[i].transforms)

\* C1: a second compute_lexicon right after a successful one (no mutation of
\* the tree in between) changes no node (word, historical_metadata) and no
\* edge (intermediate form).
C1_SecondCallChangesNothing ==
    [][(pc = "loop" /\ result = "Ok") => (nodes' = nodes /\ edges' = edges)]_vars

\* C2: on a tree without a directed cycle and without a failing transform,
\* a running compute_lexicon eventually makes a pass without changes and
\* returns Ok.
C2_AcyclicComputeReturnsOk ==
    (pc = "loop" /\ ~HasCycle /\ NoFailingTransform)
        ~> (pc = "idle" /\ result = "Ok" /\ changes = 0)

\* C2 witness: a chain of two edges was computed to the end, every node resolved
C2_Witness ==
    /\ Returned_Ok
    /\ changes = 0
    /\ ~HasCycle
    /\ NoFailingTransform
    /\ \E n \in 1..Len(nodes) :
          /\ \E j \in 1..Len(edges) : edges[j].target = n
          /\ \E j \in 1..Len(edges) : edges[j].source = n
    /\ updated = 1..Len(nodes)

Visited == IF pc = "idle" THEN node ELSE node - 1

Incoming(n) == {j \in 1..Len(edges) : edges[j].target = n}

\* agglutination_order, an absent one counting as 0
OrderOf(j) ==
    IF is_some(edges[j].agglutination_order) THEN unwrap(edges[j].agglutination_order) ELSE 0

\* edge i comes before edge j: lower order first; among equal orders the
\* order in which the graph yields the edges, the latest added edge first
Before(i, j) == OrderOf(i) < OrderOf(j) \/ (OrderOf(i) = OrderOf(j) /\ i > j)

\* the graphemes of the intermediate forms of the edges in S, one edge after
\* the other in the order Before
RECURSIVE ConcatInOrder(_)
ConcatInOrder(S) ==
    IF S = {} THEN <<>>
    ELSE LET first == CHOOSE i \in S : \A j \in S \ {i} : Before(i, j)
         IN Lemma_chars(unwrap(edges[first].intermediate_word)) \o ConcatInOrder(S \ {first})

\* C4: when a node is resolved, the word built for it (before the global
\* transforms) is the concatenation of the intermediate forms of its incoming
\* edges sorted by agglutination_order ascending, an absent order counting as
\* 0 and edges of equal order keeping a fixed relative order.
C4_AgglutinationOrder ==
    is_some(rendered_word) =>
        Lemma_chars(unwrap(rendered_word)) = ConcatInOrder(Incoming(Visited))

\* C4 witness: a node with two incoming edges was resolved, the later edge
\* having the higher order and another form, so that the sort moved it back
C4_Witness ==
    /\ is_some(rendered_word)
    /\ \E i \in Incoming(Visited), j \in Incoming(Visited) :
          /\ i < j
          /\ OrderOf(i) < OrderOf(j)
          /\ edges[i].intermediate_word # edges[j].intermediate_word
          /\ is_none(edges[i].agglutination_order) \/ is_none(edges[j].agglutination_order)

\* the historical_metadata the caller gave to the Lexis
OwnMetadata(lex) == (CHOOSE l \in LexPool : l.id = lex.id).historical_metadata

Inherits(D, A, k) ==
    /\ k \in DOMAIN nodes[D].historical_metadata
    /\ nodes[D].historical_metadata[k] = nodes[A].historical_metadata[k]

Disputed(D, A, k) ==
    \E B \in Ancestors(D) :
        /\ k \in DOMAIN nodes[B].historical_metadata
        /\ nodes[B].historical_metadata[k] # nodes[A].historical_metadata[k]

PrimitivesApplied(funcs, word) ==
    \A i \in 1..Len(funcs) :
        /\ funcs[i].kind = "Prefix" =>
              /\ Len(word) >= Len(funcs[i].value)
              /\ SubSeq(word, 1, Len(funcs[i].value)) = funcs[i].value
        /\ funcs[i].kind = "Postfix" =>
              /\ Len(word) >= Len(funcs[i].value)
              /\ SubSeq(word, Len(word) - Len(funcs[i].value) + 1, Len(word)) = funcs[i].value

\* C6: with global transforms configured, after compute_lexicon every node
\* that has a word and matches the lexis guard of a global transform without
\* etymon guard has that transform's primitives applied to its word, with or
\* without incoming edges.
C6_GlobalsAppliedToEveryWord ==
    (Returned_Ok /\ is_some(global_transforms)) =>
        \A n \in 1..Len(nodes) : \A i \in 1..Len(unwrap(global_transforms)) :
            LET g == unwrap(global_transforms)[i] IN
            (/\ is_none(g.etymon_match)
             /\ is_some(nodes[n].word)
             /\ matches(g.lex_match, nodes[n]))
                => PrimitivesApplied(g.transforms, unwrap(nodes[n].word))

(***************************************************************************)
(* Claims on connect_etymology (checked under Spec)                        *)
(***************************************************************************)
\* the indices of the nodes of ns structurally equal to the Lexis x
equal_nodes(ns, x) == {i \in 1..Len(ns) : Lexis_eq(ns[i], x)}

\* the step is a call of connect_etymology on a tree that has nodes
ConnectStep ==
    /\ pc = "idle"
    /\ pc' = "idle"
    /\ Len(edges') = Len(edges) + 1
    /\ Len(nodes) > 0

\* the edge the call added joins a node equal to etymon to a node equal to
\* lex and carries the arguments; nothing that was there has changed
OneEdgeAdded(a) ==
    LET e == edges'[Len(edges')] IN
    /\ SubSeq(edges', 1, Len(edges)) = edges
    /\ SubSeq(nodes', 1, Len(nodes)) = nodes
    /\ Lexis_eq(nodes'[e.source], a.etymon)
    /\ Lexis_eq(nodes'[e.target], a.lex)
    /\ e.transforms = a.trans
    /\ e.agglutination_order = a.agglutination_order
    /\ e.intermediate_word = None

\* an argument that has an equal node is connected through such a node
EqualNodesReused(a) ==
    LET e == edges'[Len(edges')] IN
    /\ equal_nodes(nodes, a.lex) # {} => e.target \in equal_nodes(nodes, a.lex)
    /\ equal_nodes(nodes, a.etymon) # {} => e.source \in equal_nodes(nodes, a.etymon)

\* every node the call added is an argument without equal node, and is equal
\* to no node before it
NoEqualNodeAdded(a) ==
    \A i \in (Len(nodes) + 1)..Len(nodes') :
        /\ \/ Lexis_eq(nodes'[i], a.lex) /\ equal_nodes(nodes, a.lex) = {}
           \/ Lexis_eq(nodes'[i], a.etymon) /\ equal_nodes(nodes, a.etymon) = {}
        /\ \A j \in 1..(i - 1) : ~Lexis_eq(nodes'[j], nodes'[i])

\* C11: on a non-empty tree connect_etymology reuses the node structurally
\* equal to each argument, adds a node only for an argument without equal
\* node, never adds a node equal to one already present, and adds exactly one
\* edge etymon -> lex with the given transforms and order and no intermediate
\* form.
C11_ConnectReusesEqualNodes ==
    [][ConnectStep =>
          /\ OneEdgeAdded(unwrap(fn_arg'))
          /\ EqualNodesReused(unwrap(fn_arg'))
          /\ NoEqualNodeAdded(unwrap(fn_arg'))]_vars

(***************************************************************************)
(* generate_daughter_language and walk_create_derivatives (kirum.rs).      *)
(* A caller's closure is a record naming what it does; call_apply_to,      *)
(* call_postprocess and call_walk_function run it.  The operators pass on  *)
(* g, the state of the call: [ok, nodes, edges, called], `called` being    *)
(* the arguments the closures postprocess / walk_function were called with.*)
(***************************************************************************)
\* `apply_to(&self.graph[node])`
call_apply_to(apply_to, lex) ==
    CASE apply_to.kind = "language" -> lex.language = apply_to.language
      [] apply_to.kind = "all" -> TRUE

\* `postprocess(&found_updated)`: the closure of tests::test_daughter_basic
\* sets the tags; another one gives the daughter an id of its own
call_postprocess(postprocess, lex) ==
    CASE postprocess.kind = "tags" -> [lex EXCEPT !.tags = postprocess.tags]
      [] postprocess.kind = "id" -> [lex EXCEPT !.id = postprocess.id]

RECURSIVE daughter_transforms_from(_, _, _)
\* lines 388-394, with a loop that ends at the first transform whose guard rejects
daughter_transforms_stopping_at_reject(daughter_transforms, found_updated, applied_transforms) ==
    IF daughter_transforms = <<>>
    THEN [ok |-> TRUE, lex |-> found_updated, applied |-> applied_transforms]
    ELSE with(transform_option(Head(daughter_transforms), found_updated), LAMBDA updated_ :
              IF ~updated_.ok
              THEN [ok |-> FALSE, lex |-> updated_.lex, applied |-> applied_transforms]
              ELSE IF updated_.applied
                   THEN daughter_transforms_from(
                            Tail(daughter_transforms), updated_.lex,
                            Append(applied_transforms, Head(daughter_transforms)))
                   ELSE [ok |-> TRUE, lex |-> updated_.lex, applied |-> applied_transforms])

\* lines 388-394: every daughter transform is tried in turn on found_updated;
\* the accepted ones are collected in applied_transforms
daughter_transforms_from(daughter_transforms, found_updated, applied_transforms) ==
    IF daughter_transforms = <<>>
    THEN [ok |-> TRUE, lex |-> found_updated, applied |-> applied_transforms]
    ELSE with(transform_option(Head(daughter_transforms), found_updated), LAMBDA updated_ :
              IF ~updated_.ok
              THEN [ok |-> FALSE, lex |-> updated_.lex, applied |-> applied_transforms]
              ELSE daughter_transforms_from(
                       Tail(daughter_transforms), updated_.lex,
                       IF updated_.applied
                       THEN Append(applied_transforms, Head(daughter_transforms))
                       ELSE applied_transforms))

\* TreeEtymology::default(), with the given transforms
TreeEtymology_default(transforms) ==
    [transforms |-> transforms, intermediate_word |-> None, agglutination_order |-> None]

\* `let new_node = self.graph.add_node(lex); self.graph.add_edge(node, new_node, weight)`
add_derived_writing_source(g, n, lex, weight) ==
    [g EXCEPT !.nodes = Append([@ EXCEPT ![n] = lex], lex),
              !.edges = Append(@, [source |-> n, target |-> Len(g.nodes) + 1,
                                   transforms |-> weight.transforms,
                                   intermediate_word |-> weight.intermediate_word,
                                   agglutination_order |-> weight.agglutination_order])]

add_derived(g, n, lex, weight) ==
    [g EXCEPT !.nodes = Append(@, lex),
              !.edges = Append(@, [source |-> n, target |-> Len(g.nodes) + 1,
                                   transforms |-> weight.transforms,
                                   intermediate_word |-> weight.intermediate_word,
                                   agglutination_order |-> weight.agglutination_order])]

\* lines 396-400, r being what the daughter transforms made of the clone
daughter_of(g, n, r, daughter_name, postprocess) ==
    with([r.lex EXCEPT !.language = daughter_name], LAMBDA found_updated :
         add_derived([g EXCEPT !.called = Append(@, found_updated)], n,
                     call_postprocess(postprocess, found_updated),
                     TreeEtymology_default(r.applied)))

\* lines 383-403: `for node in self.graph.node_indices()`, the indices being
\* those of the nodes at the start of the call (1..last)
RECURSIVE daughters_from(_, _, _, _, _, _, _)
daughters_from(g, n, last, daughter_name, daughter_transforms, apply_to, postprocess) ==
    IF n > last THEN g
    ELSE IF ~call_apply_to(apply_to, g.nodes[n])
         THEN daughters_from(g, n + 1, last, daughter_name, daughter_transforms,
                             apply_to, postprocess)
         ELSE with(daughter_transforms_from(daughter_transforms, g.nodes[n], <<>>), LAMBDA r :
                   IF ~r.ok
                   THEN [g EXCEPT !.ok = FALSE]
                   ELSE daughters_from(daughter_of(g, n, r, daughter_name, postprocess),
                                       n + 1, last, daughter_name, daughter_transforms,
                                       apply_to, postprocess))

\* LanguageTree::generate_daughter_language
generate_daughter_language(ns, es, daughter_name, daughter_transforms, apply_to, postprocess) ==
    daughters_from([ok |-> TRUE, nodes |-> ns, edges |-> es, called |-> <<>>],
                   1, Len(ns), daughter_name, daughter_transforms, apply_to, postprocess)

\* `walk_function(self.graph[node].clone())`: (Option<Lexis>, Option<TreeEtymology>).
\* One closure derives a word from every Lexis; the other, like the caller in
\* the command line tool, derives one from the words of a language and
\* returns the edge as well.
call_walk_function(walk_function, lex) ==
    CASE walk_function.kind = "every" ->
            [new |-> Some([lex EXCEPT !.id = walk_function.id]), trans |-> None]
      [] walk_function.kind = "language" ->
            IF lex.language = walk_function.language
            THEN [new |-> Some([lex EXCEPT !.language = walk_function.name]),
                  trans |-> Some(walk_function.trans)]
            ELSE [new |-> None, trans |-> None]

\* lines 364-367, r being what walk_function returned
walk_result(g, n, r) ==
    IF is_some(r.new)
    THEN add_derived(g, n, unwrap(r.new),
                     IF is_some(r.trans) THEN unwrap(r.trans) ELSE TreeEtymology_default(<<>>))
    ELSE g

\* lines 362-368: `for node in self.graph.node_indices()`, the indices being
\* those of the nodes at the start of the call (1..last)
RECURSIVE walk_from(_, _, _, _)
walk_from(g, n, last, walk_function) ==
    IF n > last THEN g
    ELSE with(call_walk_function(walk_function, g.nodes[n]), LAMBDA r :
              walk_from(walk_result([g EXCEPT !.called = Append(@, g.nodes[n])], n, r),
                        n + 1, last, walk_function))

\* a walk that goes on to the nodes it has added itself
walk_create_derivatives_visiting_added(ns, es, walk_function) ==
    with(walk_from([ok |-> TRUE, nodes |-> ns, edges |-> es, called |-> <<>>],
                   1, Len(ns), walk_function),
         LAMBDA g : walk_from(g, Len(ns) + 1, Len(g.nodes), walk_function))

\* LanguageTree::walk_create_derivatives
walk_create_derivatives(ns, es, walk_function) ==
    walk_from([ok |-> TRUE, nodes |-> ns, edges |-> es, called |-> <<>>],
              1, Len(ns), walk_function)

(***************************************************************************)
(* SpecDaughter: the caller of Spec, who also derives words from the tree  *)
(* with generate_daughter_language and walk_create_derivatives             *)
(***************************************************************************)
MaxSourceEdges == 1

T_after == [name |-> "after",
            lex_match |-> Some(Only("word", Match(EqualsString(<<"k", "a">>)))),
            transforms |-> <<Postfix(s_)>>]

DaughterTransformInputs ==
    {<<T_prefix, T_after>>, <<T_after, T_guarded, T_prefix>>, <<T_prefix, T_script>>}

ApplyToInputs == {[kind |-> "language", language |-> "L1"], [kind |-> "all"]}

PostprocessInputs == {[kind |-> "tags", tags |-> <<"tested">>], [kind |-> "id", id |-> "d"]}

WalkFunctionInputs ==
    {[kind |-> "every", id |-> "w"],
     [kind |-> "language", language |-> "L1", name |-> "L2",
      trans |-> [transforms |-> <<T_prefix>>, intermediate_word |-> None,
                 agglutination_order |-> Some(1)]]}

\* the call has changed the tree of the caller: [ok, nodes, edges, called]
Derived(g) ==
    /\ nodes' = g.nodes
    /\ edges' = g.edges
    /\ fn_ret' = Some(g)
    /\ result' = "none"
    /\ UNCHANGED <<global_transforms, pc, updated, node, changes, rendered_word, computes>>

\* tree.generate_daughter_language("L2", daughter_transforms, apply_to, postprocess)
GenerateDaughter ==
    /\ pc = "idle"
    /\ Len(edges) <= MaxSourceEdges
    /\ \E daughter_transforms \in DaughterTransformInputs, apply_to \in ApplyToInputs,
          postprocess \in PostprocessInputs :
          /\ fn_arg' = Some([fn |-> "generate_daughter_language", daughter_name |-> "L2",
                             daughter_transforms |-> daughter_transforms,
                             apply_to |-> apply_to, postprocess |-> postprocess,
                             nodes |-> nodes, edges |-> edges])
          /\ \E g \in {generate_daughter_language(nodes, edges, "L2", daughter_transforms,
                                                  apply_to, postprocess)} : Derived(g)

\* tree.walk_create_derivatives(walk_function)
WalkCreateDerivatives ==
    /\ pc = "idle"
    /\ Len(edges) <= MaxSourceEdges
    /\ \E walk_function \in WalkFunctionInputs :
          /\ fn_arg' = Some([fn |-> "walk_create_derivatives",
                             walk_function |-> walk_function,
                             nodes |-> nodes, edges |-> edges])
          /\ \E g \in {walk_create_derivatives(nodes, edges, walk_function)} : Derived(g)

NextDaughter ==
    \/ ConnectEtymology
    \/ GenerateDaughter
    \/ WalkCreateDerivatives
    \/ ComputeStart
    \/ VisitNode
    \/ NextPass
    \/ Return

SpecDaughter == Init /\ [][NextDaughter]_vars

(***************************************************************************)
(* Claims on the derived words (checked under SpecDaughter)                *)
(***************************************************************************)
\* the caller's latest call on the tree, other than compute_lexicon, was fn
LastCall(fn) == is_some(fn_arg) /\ unwrap(fn_arg).fn = fn

\* the tree at the start of that call, and what the call made of it
AtCallStart == unwrap(fn_arg)
AtCallEnd == unwrap(fn_ret)

\* the nodes the call added
AddedNodes == (Len(AtCallStart.nodes) + 1)..Len(AtCallEnd.nodes)
AddedEdges == (Len(AtCallStart.edges) + 1)..Len(AtCallEnd.edges)

\* the visited node an added node was derived from
source_of(d) == edges[CHOOSE j \in AddedEdges : edges[j].target = d].source

\* C12 (as stated): a compute_lexicon that runs after generate_daughter_language
\* leaves the word of every daughter node exactly as generate_daughter_language
\* stored it.
C12_DaughtersNotReprocessed ==
    (LastCall("generate_daughter_language") /\ pc = "idle" /\ result # "none") =>
        \A d \in AddedNodes : nodes[d].word = AtCallEnd.nodes[d].word

\* the edge the call added for an added node
edge_of(d) == edges[CHOOSE j \in AddedEdges : edges[j].target = d]

\* lines 287-308 for a node with one incoming edge: its word is built from the
\* intermediate word of the edge and goes through the global transforms
rendered_anew(d) ==
    LET rendered == join_string_vectors(<< <<0, unwrap(edge_of(d).intermediate_word)>> >>)
        updating == [nodes[d] EXCEPT !.word = Some(rendered)]
    IN IF is_some(global_transforms)
       THEN apply_globals(unwrap(global_transforms), updating, etymons_of(nodes, edges, d)).lex
       ELSE updating

\* the word generate_daughter_language stored in an added node
stored_word(d) == AtCallEnd.nodes[d].word

\* C12 (amended): compute_lexicon treats a daughter node like any other node
\* with one etymon. After a compute_lexicon that returns Ok, a daughter whose
\* source was resolved is resolved too, and the word of a resolved daughter is
\* the one rendered anew from the intermediate word of its edge and passed
\* through the global transforms; only a daughter that was not resolved, and
\* for which no word had to be created, keeps the stored word.
C12_DaughtersReprocessed ==
    (LastCall("generate_daughter_language") /\ Returned_Ok) =>
        \A d \in AddedNodes :
            /\ source_of(d) \in updated => d \in updated
            /\ d \in updated =>
                  /\ is_some(edge_of(d).intermediate_word)
                  /\ nodes[d].word = rendered_anew(d).word
            /\ (d \notin updated /\ (is_some(stored_word(d)) \/ is_none(nodes[d].word_create)))
                  => nodes[d].word = stored_word(d)

\* a later compute_lexicon has given a daughter another word than the stored one
C12_Witness ==
    /\ LastCall("generate_daughter_language") /\ Returned_Ok
    /\ \E d \in AddedNodes :
          /\ d \in updated
          /\ is_some(stored_word(d))
          /\ Lemma_chars(unwrap(nodes[d].word)) # Lemma_chars(unwrap(stored_word(d)))

\* the call fn has just returned to the caller
JustReturned(fn) == LastCall(fn) /\ pc = "idle" /\ result = "none"

\* the nodes that were in the tree at call start and satisfy select, in node order
Selected ==
    SelectSeq([n \in 1..Len(AtCallStart.nodes) |-> n],
              LAMBDA n : call_apply_to(AtCallStart.apply_to, AtCallStart.nodes[n]))

\* what was in the tree at call start is as it was
NothingModified ==
    /\ SubSeq(nodes, 1, Len(AtCallStart.nodes)) = AtCallStart.nodes
    /\ SubSeq(edges, 1, Len(AtCallStart.edges)) = AtCallStart.edges

\* the first k nodes of sel have got one new node and one edge to it each,
\* and nothing else was added
OneDerivedForEach(sel, k) ==
    /\ Len(nodes) = Len(AtCallStart.nodes) + k
    /\ Len(edges) = Len(AtCallStart.edges) + k
    /\ \A i \in 1..k :
          /\ edges[Len(AtCallStart.edges) + i].source = sel[i]
          /\ edges[Len(AtCallStart.edges) + i].target = Len(AtCallStart.nodes) + i

\* C13 (as stated): generate_daughter_language adds exactly one node and one
\* edge source -> derived for each node that was in the tree at call start and
\* satisfies select, visits no added node, and modifies nothing that was there.
C13_OneDaughterPerSelectedNode ==
    JustReturned("generate_daughter_language") =>
        /\ OneDerivedForEach(Selected, Len(Selected))
        /\ NothingModified

\* C13 (amended): a call that returns Ok has added exactly one node and one
\* edge source -> derived for each selected node of the tree at call start; a
\* call that returns Err has done so for the selected nodes before the one
\* whose transforms failed, and for no other. Either way no added node is
\* visited and nothing that was in the tree is modified.
C13_OneDaughterPerSelectedNodeDone ==
    JustReturned("generate_daughter_language") =>
        /\ \E k \in 0..Len(Selected) :
              /\ OneDerivedForEach(Selected, k)
              /\ AtCallEnd.ok <=> k = Len(Selected)
              /\ ~AtCallEnd.ok =>
                    ~daughter_transforms_from(AtCallStart.daughter_transforms,
                                              AtCallStart.nodes[Selected[k + 1]], <<>>).ok
        /\ NothingModified

\* a call has failed after adding a daughter
C13_Witness ==
    /\ JustReturned("generate_daughter_language")
    /\ ~AtCallEnd.ok
    /\ Len(Selected) >= 2
    /\ Len(nodes) > Len(AtCallStart.nodes)

\* the guard of a transform accepts a Lexis (a transform without guard accepts all)
guard_accepts(trans, lex) ==
    is_none(trans.lex_match) \/ matches(unwrap(trans.lex_match), lex)

\* the clone of lex after the first j transforms of ts were tried on it in order
RECURSIVE progressed(_, _, _)
progressed(ts, lex, j) ==
    IF j = 0 THEN lex
    ELSE LET prev == progressed(ts, lex, j - 1)
         IN IF guard_accepts(ts[j], prev) THEN apply_funcs(ts[j].transforms, prev).lex ELSE prev

\* the positions of the transforms of ts whose guard accepts the progressively
\* transformed Lexis
accepted(ts, lex) ==
    SelectSeq([j \in 1..Len(ts) |-> j],
              LAMBDA j : guard_accepts(ts[j], progressed(ts, lex, j - 1)))

\* C14: for each node for which generate_daughter_language has derived a
\* word, the derived Lexis is the clone of the source node after the daughter
\* transforms whose guard accepts the progressively transformed clone were
\* applied in list order, the rejected ones being skipped; the new edge carries
\* exactly the accepted transforms in that order, and the Lexis handed to
\* postprocess has the daughter name as its language.
C14_AcceptedTransformsInOrder ==
    JustReturned("generate_daughter_language") =>
        \A d \in AddedNodes :
            LET ts == AtCallStart.daughter_transforms
                src == AtCallStart.nodes[source_of(d)]
                acc == accepted(ts, src)
                final == progressed(ts, src, Len(ts))
                handed == AtCallEnd.called[d - Len(AtCallStart.nodes)]
            IN /\ nodes[d].word = final.word
               /\ edge_of(d).transforms = [a \in 1..Len(acc) |-> ts[acc[a]]]
               /\ handed.language = AtCallStart.daughter_name
               /\ handed = [final EXCEPT !.language = AtCallStart.daughter_name]
               /\ nodes[d] = call_postprocess(AtCallStart.postprocess, handed)

\* a daughter was derived with a transform skipped and later ones applied, one
\* of them accepted only because of what an earlier one had made of the word
C14_Witness ==
    /\ JustReturned("generate_daughter_language")
    /\ \E d \in AddedNodes :
          LET ts == AtCallStart.daughter_transforms
              src == AtCallStart.nodes[source_of(d)]
          IN /\ is_some(nodes[d].word)
             /\ \E i, j \in 1..Len(ts) :
                   /\ i < j
                   /\ ~guard_accepts(ts[i], progressed(ts, src, i - 1))
                   /\ guard_accepts(ts[j], progressed(ts, src, j - 1))
                   /\ nodes[d].word # progressed(ts, src, j - 1).word

\* what the caller's function returns for the nodes of the tree at call start
Returns ==
    [n \in 1..Len(AtCallStart.nodes) |->
        call_walk_function(AtCallStart.walk_function, AtCallStart.nodes[n])]

\* the nodes at call start for which the function returns a new Lexis, in node order
Deriving ==
    SelectSeq([n \in 1..Len(AtCallStart.nodes) |-> n], LAMBDA n : is_some(Returns[n].new))

\* the edge metadata of a derived word: the returned one, or the default
weight_of(r) == IF is_some(r.trans) THEN unwrap(r.trans) ELSE TreeEtymology_default(<<>>)

\* C15: walk_create_derivatives calls the caller's function exactly once for
\* each node present at call start, in node order, and for no node added
\* during the call, so that the walk ends after as many calls as there were
\* nodes even when every call returns a new Lexis; each returned Lexis has
\* become a new node with one edge from the visited node, carrying the
\* returned (or default) edge metadata.
C15_WalkVisitsStartNodesOnce ==
    JustReturned("walk_create_derivatives") =>
        /\ AtCallEnd.called = AtCallStart.nodes
        /\ OneDerivedForEach(Deriving, Len(Deriving))
        /\ \A i \in 1..Len(Deriving) :
              LET r == Returns[Deriving[i]]
                  e == edges[Len(AtCallStart.edges) + i]
              IN /\ nodes[Len(AtCallStart.nodes) + i] = unwrap(r.new)
                 /\ [transforms |-> e.transforms, intermediate_word |-> e.intermediate_word,
                     agglutination_order |-> e.agglutination_order] = weight_of(r)
        /\ NothingModified

\* a walk whose function returns a new Lexis for every node has doubled a
\* tree of several nodes and returned
C15_Witness ==
    /\ JustReturned("walk_create_derivatives")
    /\ AtCallStart.walk_function.kind = "every"
    /\ Len(AtCallStart.nodes) >= 2
    /\ Len(nodes) = 2 * Len(AtCallStart.nodes)

(***************************************************************************)
(* to_vec and to_vec_etymons (kirum.rs)                                    *)
(***************************************************************************)
\* the code point of a character of the words at hand
char_code(c) ==
    CASE c = "a" -> 97 [] c = "b" -> 98 [] c = "g" -> 103 [] c = "h" -> 104
      [] c = "k" -> 107 [] c = "s" -> 115 [] c = "t" -> 116 [] c = "|" -> 124

\* `#[derive(PartialOrd, Ord)]` on Lemma: the order of the delimited strings
RECURSIVE Lemma_lt(_, _)
Lemma_lt(a, b) ==
    IF b = <<>> THEN FALSE
    ELSE IF a = <<>> THEN TRUE
    ELSE IF char_code(Head(a)) # char_code(Head(b))
         THEN char_code(Head(a)) < char_code(Head(b))
         ELSE Lemma_lt(Tail(a), Tail(b))

\* dict.sort_by_key(|k| k.word.clone().unwrap()): a stable sort, here by
\* insertion of the node n into the sorted nodes
RECURSIVE insert_by_word(_, _, _)
insert_by_word(ns, sorted, n) ==
    IF sorted = <<>> THEN <<n>>
    ELSE IF Lemma_lt(unwrap(ns[n].word), unwrap(ns[Head(sorted)].word))
         THEN <<n>> \o sorted
         ELSE <<Head(sorted)>> \o insert_by_word(ns, Tail(sorted), n)

RECURSIVE sort_by_word(_, _)
sort_by_word(ns, dict) ==
    IF dict = <<>> THEN <<>>
    ELSE with(sort_by_word(ns, SubSeq(dict, 1, Len(dict) - 1)),
              LAMBDA sorted : insert_by_word(ns, sorted, dict[Len(dict)]))

\* a to_vec that keeps the nodes without a word, in front of the others
to_vec_nodes_keeping_wordless(ns) ==
    SelectSeq([n \in 1..Len(ns) |-> n], LAMBDA n : is_none(ns[n].word))
    \o sort_by_word(ns, SelectSeq([n \in 1..Len(ns) |-> n], LAMBDA n : is_some(ns[n].word)))

\* lines 411-417: the nodes whose clones to_vec returns, in the order of the result
to_vec_nodes(ns) ==
    sort_by_word(ns, SelectSeq([n \in 1..Len(ns) |-> n], LAMBDA n : is_some(ns[n].word)))

\* LanguageTree::to_vec
to_vec(ns) == lexes_at(ns, to_vec_nodes(ns))

\* `filter(&self.graph[node])`
call_filter(filter, lex) ==
    CASE filter.kind = "language" -> lex.language = filter.language
      [] filter.kind = "all" -> TRUE

\* TreeEtymology::names
names(self) == [i \in 1..Len(self.transforms) |-> self.transforms[i].name]

\* Graph::edges_connecting(a, b): the outgoing edges of a, latest first, that end in b
edges_connecting(es, a, b) ==
    SelectSeq(edges_directed(es, a, "Outgoing"), LAMBDA j : es[j].target = b)

\* lines 444-451: the entry pushed for one yielded etymon
Edge_of_etymon(ns, es, etymon, n) ==
    with(edges_connecting(es, etymon, n), LAMBDA ety_link :
         [etymon |-> ns[etymon].id,
          transforms |-> Some(IF ety_link # <<>> THEN names(es[ety_link[1]]) ELSE <<>>),
          agglutination_order |-> IF ety_link # <<>>
                                  THEN es[ety_link[1]].agglutination_order ELSE None])

\* lines 442-453: the item pushed for a node
etymology_of(ns, es, n) ==
    with(neighbors_incoming(es, n), LAMBDA nb :
         [lex |-> ns[n],
          etymology |-> [etymons |-> [i \in 1..Len(nb) |-> Edge_of_etymon(ns, es, nb[i], n)]]])

\* LanguageTree::to_vec_etymons
to_vec_etymons(ns, es, filter) ==
    with(SelectSeq([n \in 1..Len(ns) |-> n],
                   LAMBDA n : is_some(ns[n].word) /\ call_filter(filter, ns[n])),
         LAMBDA kept : [i \in 1..Len(kept) |-> etymology_of(ns, es, kept[i])])

(***************************************************************************)
(* SpecView: the caller of Spec, who also reads the tree with to_vec and   *)
(* to_vec_etymons                                                          *)
(***************************************************************************)
FilterInputs == {[kind |-> "all"], [kind |-> "language", language |-> "L1"]}

\* a call that reads the tree: fn_arg tells which compute_lexicon it follows
Viewed(arg, ret) ==
    /\ pc = "idle"
    /\ fn_arg' = Some(arg)
    /\ fn_ret' = Some(ret)
    /\ UNCHANGED <<nodes, edges, global_transforms, pc, updated, node, changes,
                   rendered_word, result, computes>>

\* tree.to_vec()
ToVec ==
    Viewed([fn |-> "to_vec", computes |-> computes],
           [dict |-> to_vec(nodes), dict_nodes |-> to_vec_nodes(nodes)])

\* tree.to_vec_etymons(filter)
ToVecEtymons ==
    \E filter \in FilterInputs :
        Viewed([fn |-> "to_vec_etymons", computes |-> computes, filter |-> filter],
               [word_vec |-> to_vec_etymons(nodes, edges, filter)])

NextView ==
    \/ ConnectEtymology
    \/ ComputeStart
    \/ VisitNode
    \/ NextPass
    \/ Return
    \/ ToVec
    \/ ToVecEtymons

SpecView == Init /\ [][NextView]_vars

(***************************************************************************)
(* Claims on to_vec and to_vec_etymons (checked under SpecView)            *)
(***************************************************************************)
\* fn has read the tree as it is now
ViewedNow(fn) == LastCall(fn) /\ pc = "idle" /\ unwrap(fn_arg).computes = computes

\* after a compute_lexicon that returned Ok: the nodes that have etymons and
\* were not resolved
Unresolved == {n \in 1..Len(nodes) : n \notin updated /\ edges_directed(edges, n, "Incoming") # <<>>}

\* the words of a list of Lexis ascend
Ascending(dict) ==
    \A i \in 1..(Len(dict) - 1) : ~Lemma_lt(unwrap(dict[i + 1].word), unwrap(dict[i].word))

\* C16 (as stated): after compute_lexicon, a node that remains unresolved
\* because one of its ancestors cannot be derived is excluded from the result
\* of to_vec.
C16_UnresolvedExcluded ==
    (ViewedNow("to_vec") /\ Returned_Ok) =>
        \A n \in Unresolved : n \notin Range(AtCallEnd.dict_nodes)

\* C16 (amended): to_vec returns the clones of exactly the nodes whose word is
\* populated, in ascending order of their words; after compute_lexicon a node
\* that remains unresolved is excluded if and only if it has no word.
C16_WordlessExcluded ==
    ViewedNow("to_vec") =>
        /\ Range(AtCallEnd.dict_nodes) = {n \in 1..Len(nodes) : is_some(nodes[n].word)}
        /\ Len(AtCallEnd.dict_nodes) = Cardinality(Range(AtCallEnd.dict_nodes))
        /\ AtCallEnd.dict = [i \in 1..Len(AtCallEnd.dict_nodes) |-> nodes[AtCallEnd.dict_nodes[i]]]
        /\ Ascending(AtCallEnd.dict)
        /\ Returned_Ok =>
              \A n \in Unresolved : n \notin Range(AtCallEnd.dict_nodes) <=> is_none(nodes[n].word)

\* to_vec has left out an unresolved node without a word and returned an
\* unresolved node that has one
C16_Witness ==
    /\ ViewedNow("to_vec") /\ Returned_Ok
    /\ \E n, m \in Unresolved :
          /\ n \notin Range(AtCallEnd.dict_nodes)
          /\ m \in Range(AtCallEnd.dict_nodes)

\* the entry the claim expects for the incoming edge j
entry_of_edge(j) ==
    [etymon |-> nodes[edges[j].source].id,
     transforms |-> Some(names(edges[j])),
     agglutination_order |-> edges[j].agglutination_order]

\* the nodes that have a word and pass the filter, in node order
Kept ==
    SelectSeq([n \in 1..Len(nodes) |-> n],
              LAMBDA n : is_some(nodes[n].word) /\ call_filter(AtCallStart.filter, nodes[n]))

\* C17: to_vec_etymons returns, for each node with a word that passes the
\* filter, the node with one entry per incoming edge, and each entry carries
\* the etymon's id with the transform names and the agglutination order of
\* that same edge, also when two edges connect the same etymon to the node.
C17_OneEntryPerIncomingEdge ==
    ViewedNow("to_vec_etymons") =>
        /\ Len(AtCallEnd.word_vec) = Len(Kept)
        /\ \A i \in 1..Len(Kept) :
              LET inc == edges_directed(edges, Kept[i], "Incoming")
                  item == AtCallEnd.word_vec[i]
              IN /\ item.lex = nodes[Kept[i]]
                 /\ item.etymology.etymons = [k \in 1..Len(inc) |-> entry_of_edge(inc[k])]

(***************************************************************************)
(* SpecCreate: one call of create_word on a phonology of the caller        *)
(***************************************************************************)
t_ == Phoneme(<<"t">>)

u_ == Phoneme(<<"u">>)

rw_ == Phoneme(<<"r", "w">>)

\* LexPhonology.groups: the key "X" is in none of them
GroupInputs ==
    {[key \in {"C", "V", "S"} |->
        CASE key = "C" -> << <<t_>>, <<Phoneme(<<"r">>)>> >>
          [] key = "V" -> << <<u_>> >>
          [] key = "S" -> << <<Reference("C"), Reference("V")>>,
                             <<Reference("V"), Reference("C")>> >>],
     [key \in {"C", "V", "S"} |->
        CASE key = "C" -> << <<t_>> >>
          [] key = "V" -> <<>>
          [] key = "S" -> << <<Reference("C"), Reference("V")>>, <<Reference("C")>> >>],
     [key \in {"C", "V", "S"} |->
        CASE key = "C" -> << <<t_>>, <<>> >>
          [] key = "V" -> << <<rw_>> >>
          [] key = "S" -> << <<Reference("C"), Reference("X")>>, <<Reference("V")>> >>],
     [key \in {"C", "V"} |->
        CASE key = "C" -> << <<t_, u_>> >>
          [] key = "V" -> << <<Reference("C"), u_>> >>]}

\* LexPhonology.lexis_types
LexisTypeInputs ==
    {[key \in {"words"} |-> << <<Reference("S")>>, <<Reference("S"), Reference("S")>> >>],
     [key \in {"words"} |-> << <<Phoneme(<<"k">>), Reference("V")>>,
                               <<Reference("C"), Phoneme(<<"i">>), Reference("C")>> >>],
     [key \in {"words", "other"} |->
        IF key = "words" THEN <<>> ELSE << <<Reference("C")>> >>],
     [key \in {"words", "other"} |->
        IF key = "words" THEN << <<>>, <<Phoneme(<<"i">>)>> >>
        ELSE << <<Phoneme(<<"k">>), Reference("X")>> >>],
     [key \in {"words"} |-> << <<Reference("V"), Reference("S")>> >>]}

TypeKeyInputs == {"words", "other", "none"}

InitCreate ==
    /\ TreeUnused
    /\ fn_arg \in {[fn |-> "create_word",
                    self |-> [groups |-> g, lexis_types |-> t], lexis_type |-> k] :
                      g \in GroupInputs, t \in LexisTypeInputs, k \in TypeKeyInputs}
    /\ fn_ret = None

\* `self.create_word(lexis_type)`, with one of the outcomes thread_rng allows
CallCreateWord ==
    /\ is_none(fn_ret)
    /\ \E out \in create_word(fn_arg.self, fn_arg.lexis_type) : fn_ret' = Some(out)
    /\ UNCHANGED <<fn_arg, tree_vars>>

NextCreate == CallCreateWord

SpecCreate == InitCreate /\ [][NextCreate]_vars

(***************************************************************************)
(* Claims on create_word (checked under SpecCreate)                        *)
(***************************************************************************)
\* a reference that resolves to nothing: its key is missing or its list empty
ResolvesToNothing(self, c) ==
    c.v[1] \notin DOMAIN self.groups \/ self.groups[c.v[1]] = <<>>

\* the expansions of a pattern: for each choice of alternatives either the
\* phoneme terminals from left to right (ok) or the fact that a reference
\* resolved to nothing.  With strict, a reference whose chosen alternative
\* yields no phoneme resolves to nothing as well.
RECURSIVE expansions(_, _, _)
expansions(self, pref, strict) ==
    IF pref = <<>> THEN {[ok |-> TRUE, seq |-> <<>>]}
    ELSE LET c == Head(pref)
             heads ==
                IF c.kind = "Phoneme" THEN {[ok |-> TRUE, seq |-> <<c.v>>]}
                ELSE IF ResolvesToNothing(self, c) THEN {[ok |-> FALSE, seq |-> <<>>]}
                ELSE {IF strict /\ e.seq = <<>> THEN [ok |-> FALSE, seq |-> <<>>] ELSE e :
                         e \in UNION {expansions(self, self.groups[c.v[1]][i], strict) :
                                         i \in 1..Len(self.groups[c.v[1]])}}
         IN {IF h.ok /\ t.ok THEN [ok |-> TRUE, seq |-> h.seq \o t.seq]
             ELSE [ok |-> FALSE, seq |-> <<>>] :
                h \in heads, t \in expansions(self, Tail(pref), strict)}

\* the expansions of the alternatives of the type key of the call
ChosenExpansions(strict) ==
    UNION {expansions(fn_arg.self, fn_arg.self.lexis_types[fn_arg.lexis_type][i], strict) :
              i \in 1..Len(fn_arg.self.lexis_types[fn_arg.lexis_type])}

\* out is the non-empty Lemma whose graphemes are the terminals seq
IsLemmaOf(out, seq) ==
    /\ is_some(out)
    /\ ~Lemma_is_empty(unwrap(out))
    /\ Lemma_chars(unwrap(out)) = seq

\* what the claim makes of an expansion: none, or the terminals of the Lemma
outcome_of(e, strict) == IF e.ok /\ (~strict \/ e.seq # <<>>) THEN Some(e.seq) ELSE None

\* what a call returned: none, or the graphemes of the Lemma
graphemes_of(out) == IF is_some(out) THEN Some(Lemma_chars(unwrap(out))) ELSE None

\* C18 (as stated): create_word returns none when the type key is not in
\* lexis_types; otherwise, for every choice of alternatives, it returns none if
\* the expansion reaches a reference whose key is missing or whose list is
\* empty, and else a non-empty Lemma that is the concatenation of the phoneme
\* terminals from left to right.
C18_NoneOrAllTerminals ==
    Returned("create_word") =>
        IF fn_arg.lexis_type \notin DOMAIN fn_arg.self.lexis_types
        THEN unwrap(fn_ret) = None
        ELSE \/ fn_arg.self.lexis_types[fn_arg.lexis_type] = <<>>
             \/ \E e \in ChosenExpansions(FALSE) :
                   IF e.ok THEN IsLemmaOf(unwrap(fn_ret), e.seq) ELSE unwrap(fn_ret) = None

\* C18 (amended): create_word returns none when the type key is not in
\* lexis_types or has no alternative; otherwise, for every choice of
\* alternatives, it returns none if the expansion reaches a reference whose
\* key is missing, whose list is empty or whose chosen alternative yields no
\* phoneme, or if the whole expansion yields no phoneme, and else a non-empty
\* Lemma whose graphemes are the phoneme terminals from left to right.  The
\* values a call can return are exactly those of the expansions.
C18_NoneOrAllTerminalsIfAny ==
    Returned("create_word") =>
        IF \/ fn_arg.lexis_type \notin DOMAIN fn_arg.self.lexis_types
           \/ fn_arg.self.lexis_types[fn_arg.lexis_type] = <<>>
        THEN unwrap(fn_ret) = None
        ELSE /\ \E e \in ChosenExpansions(TRUE) :
                   IF e.ok /\ e.seq # <<>>
                   THEN IsLemmaOf(unwrap(fn_ret), e.seq)
                   ELSE unwrap(fn_ret) = None
             /\ {graphemes_of(out) : out \in create_word(fn_arg.self, fn_arg.lexis_type)}
                   = {outcome_of(e, TRUE) : e \in ChosenExpansions(TRUE)}

\* a call has returned none although terminals came before the reference
\* that resolved to nothing
C18_Witness ==
    /\ Returned("create_word")
    /\ unwrap(fn_ret) = None
    /\ fn_arg.lexis_type \in DOMAIN fn_arg.self.lexis_types
    /\ \E i \in 1..Len(fn_arg.self.lexis_types[fn_arg.lexis_type]) :
          LET pref == fn_arg.self.lexis_types[fn_arg.lexis_type][i]
          IN /\ Len(pref) >= 2
             /\ pref[1].kind = "Phoneme"
             /\ \A e \in expansions(fn_arg.self, pref, TRUE) : ~e.ok

(***************************************************************************)
(* PhoneticReference parsing (lexcreate.rs), for strings of ASCII          *)
(* characters: a string is the sequence of its characters                  *)
(***************************************************************************)
\* char::is_uppercase, char::is_lowercase
is_uppercase(c) == c \in {"C", "V"}

is_lowercase(c) == c \in {"a", "r"}

\* impl From<char> for CreateValue
CreateValue_from_char(value) ==
    IF is_lowercase(value) THEN Phoneme(<<value>>) ELSE Reference(value)

\* impl TryFrom<&str> for CreateValue: [ok, v]
CreateValue_try_from(value) ==
    LET found_uppercase == Len(SelectSeq(value, is_uppercase))
    IN IF found_uppercase = Len(value) /\ Len(value) = 1
       THEN [ok |-> TRUE, v |-> Reference(value[1])]
       ELSE IF found_uppercase = 0
            THEN [ok |-> TRUE, v |-> Phoneme(value)]
            ELSE [ok |-> FALSE, v |-> Phoneme(value)]

\* str::split_whitespace: the non-empty pieces between white space
RECURSIVE split_whitespace(_, _)
split_whitespace(s, cur) ==
    IF s = <<>> THEN (IF cur = <<>> THEN <<>> ELSE <<cur>>)
    ELSE IF Head(s) = " "
         THEN (IF cur = <<>> THEN <<>> ELSE <<cur>>) \o split_whitespace(Tail(s), <<>>)
         ELSE split_whitespace(Tail(s), Append(cur, Head(s)))

\* lines 77-79: `phon_vec.push(char.try_into()?)` for every token
RECURSIVE push_tokens(_, _)
push_tokens(tokens, phon_vec) ==
    IF tokens = <<>> THEN [ok |-> TRUE, v |-> phon_vec]
    ELSE with(CreateValue_try_from(Head(tokens)), LAMBDA r :
              IF r.ok THEN push_tokens(Tail(tokens), Append(phon_vec, r.v))
              ELSE [ok |-> FALSE, v |-> <<>>])

\* impl TryFrom<&str> for PhoneticReference: [ok, v]
PhoneticReference_try_from(value) ==
    IF Len(SelectSeq(value, LAMBDA c : c = " ")) > 1
    THEN push_tokens(split_whitespace(value, <<>>), <<>>)
    ELSE [ok |-> TRUE, v |-> [i \in 1..Len(value) |-> CreateValue_from_char(value[i])]]

(***************************************************************************)
(* SpecParse: one PhoneticReference::try_from on a string of the caller    *)
(***************************************************************************)
MaxRefLen == 5

RefChars == {"C", "a", "1", "-", " "}

RefStrings == UNION {[1..n -> RefChars] : n \in 0..MaxRefLen}

InitParse ==
    /\ TreeUnused
    /\ fn_arg \in {[fn |-> "PhoneticReference::try_from", value |-> s] : s \in RefStrings}
    /\ fn_ret = None

\* `value.try_into()`
CallTryFrom ==
    /\ is_none(fn_ret)
    /\ fn_ret' = Some(PhoneticReference_try_from(fn_arg.value))
    /\ UNCHANGED <<fn_arg, tree_vars>>

NextParse == CallTryFrom

SpecParse == InitParse /\ [][NextParse]_vars

(***************************************************************************)
(* Claims on the parsing (checked under SpecParse)                         *)
(***************************************************************************)
Spaces(value) == Len(SelectSeq(value, LAMBDA c : c = " "))

\* the number of tokens white space separates: the places where one begins
TokenCount(value) ==
    Cardinality({i \in 1..Len(value) : value[i] # " " /\ (i = 1 \/ value[i - 1] = " ")})

\* the text of the parsed values, one after the other
RECURSIVE texts(_)
texts(v) == IF v = <<>> THEN <<>> ELSE Head(v).v \o texts(Tail(v))

\* C19: a string with at most one space is parsed character by character,
\* each uppercase character becoming a reference and every other character
\* (lowercase letter, digit, punctuation, space) a phoneme; a string with two
\* or more spaces is parsed as its tokens separated by white space.
C19_ParsedByCharacterOrToken ==
    Returned("PhoneticReference::try_from") =>
        LET value == fn_arg.value
            parsed == unwrap(fn_ret)
        IN IF Spaces(value) <= 1
           THEN /\ parsed.ok
                /\ parsed.v = [i \in 1..Len(value) |->
                                 IF is_uppercase(value[i]) THEN Reference(value[i])
                                 ELSE Phoneme(<<value[i]>>)]
           ELSE parsed.ok =>
                   /\ Len(parsed.v) = TokenCount(value)
                   /\ texts(parsed.v) = SelectSeq(value, LAMBDA c : c # " ")
                   /\ \A i \in 1..Len(parsed.v) : parsed.v[i].v # <<>>

(***************************************************************************)
(* Lemma operations (lemma.rs), for graphemes of ASCII characters          *)
(***************************************************************************)
starts_with(s, old) == Len(old) <= Len(s) /\ SubSeq(s, 1, Len(old)) = old

\* str::replacen(old, new, count): the first count matches, from the left,
\* without overlap; the empty pattern matches before every character and at
\* the end
RECURSIVE str_replacen(_, _, _, _)
str_replacen(s, old, new, count) ==
    IF count = 0 THEN s
    ELSE IF old = <<>>
         THEN (IF s = <<>> THEN new
               ELSE new \o <<Head(s)>> \o str_replacen(Tail(s), old, new, count - 1))
         ELSE IF s = <<>> THEN s
              ELSE IF starts_with(s, old)
                   THEN new \o str_replacen(SubSeq(s, Len(old) + 1, Len(s)), old, new, count - 1)
                   ELSE <<Head(s)>> \o str_replacen(Tail(s), old, new, count)

\* str::replace(old, new): every match
str_replace(s, old, new) == str_replacen(s, old, new, Len(s) + 1)

\* Iterator::rev
RECURSIVE rev(_)
rev(v) == IF v = <<>> THEN <<>> ELSE Append(rev(Tail(v)), Head(v))

\* Lemma::dedouble_sep: of consecutive WORD_SEP the first is kept
RECURSIVE dedouble_sep_from(_, _)
dedouble_sep_from(s, cur) ==
    IF s = <<>> THEN <<>>
    ELSE IF Head(s) = cur /\ Head(s) = WORD_SEP
         THEN dedouble_sep_from(Tail(s), cur)
         ELSE <<Head(s)>> \o dedouble_sep_from(Tail(s), Head(s))

dedouble_sep(lemma) == dedouble_sep_from(lemma, "")

\* Lemma::replace_str
replace_str(lemma, old, new, kind) ==
    CASE kind = "All" -> str_replace(lemma, old, new)
      [] kind = "First" -> str_replacen(lemma, old, new, 1)
      [] kind = "Last" ->
            with(Lemma_from_vec(rev(Lemma_into_vec(lemma))), LAMBDA revd :
                 with(Lemma_from_str(str_replacen(revd, old, new, 1)), LAMBDA completed_rev :
                      Lemma_from_vec(rev(Lemma_into_vec(completed_rev)))))

\* Lemma::replace
Lemma_replace(lemma, old, new, kind) == replace_str(lemma, old, new, kind)

\* Lemma::remove_char
remove_char(lemma, char, remove_type) == dedouble_sep(replace_str(lemma, char, <<>>, remove_type))

\* the position (from 0) of the first grapheme equal to letter, if any
position(v, letter) ==
    IF \E j \in 1..Len(v) : v[j] = letter
    THEN Some((CHOOSE j \in 1..Len(v) : v[j] = letter /\ \A k \in 1..(j - 1) : v[k] # letter) - 1)
    ELSE None

\* double_vec
double_vec(current, letter, found_pos, reverse) ==
    LET inserted == IF is_some(found_pos)
                   THEN SubSeq(current, 1, unwrap(found_pos)) \o <<letter>>
                        \o SubSeq(current, unwrap(found_pos) + 1, Len(current))
                   ELSE current
    IN Lemma_from_vec(IF reverse THEN rev(inserted) ELSE inserted)

\* Lemma::double
double(lemma, letter, position_) ==
    LET chars == Lemma_into_vec(lemma)
    IN CASE position_ = "All" ->
               Lemma_from_vec([j \in 1..Len(chars) |->
                                  IF chars[j] = letter THEN chars[j] \o chars[j] ELSE chars[j]])
         [] position_ = "First" -> double_vec(chars, letter, position(chars, letter), FALSE)
         [] position_ = "Last" -> double_vec(rev(chars), letter, position(rev(chars), letter), TRUE)

\* Lemma::dedouble, the loop over the graphemes: [acc, found, cur]
RECURSIVE dedouble_loop(_, _, _, _)
dedouble_loop(chars, letter, position_, st) ==
    IF chars = <<>> THEN st.acc
    ELSE LET char == Head(chars)
             skip == /\ char = st.cur
                     /\ char = letter
                     /\ (position_ = "All" \/ ~st.found)
         IN IF skip
            THEN dedouble_loop(Tail(chars), letter, position_, [st EXCEPT !.found = TRUE])
            ELSE dedouble_loop(Tail(chars), letter, position_,
                               [st EXCEPT !.cur = char,
                                          !.acc = IF position_ = "Last"
                                                  THEN <<char>> \o @ ELSE Append(@, char)])

dedouble(lemma, letter, position_) ==
    Lemma_from_vec(dedouble_loop(IF position_ = "Last" THEN rev(Lemma_into_vec(lemma))
                                 ELSE Lemma_into_vec(lemma),
                                 letter, position_,
                                 [acc |-> <<>>, found |-> FALSE, cur |-> <<>>]))

\* Lemma::match_replace, for a pattern without regex operators: the first
\* match of old.value is replaced
match_replace(lemma, old, new) == dedouble_sep(str_replacen(lemma, old, new, 1))

\* LetterArrayValues
Char(letter) == [kind |-> "Char", letter |-> letter, pos |-> 0]

Place(pos) == [kind |-> "Place", letter |-> <<>>, pos |-> pos]

\* Lemma::modify_with_array
RECURSIVE modify_loop(_, _, _)
modify_loop(working, transform_array, new_letters) ==
    IF transform_array = <<>> THEN new_letters
    ELSE LET letter == Head(transform_array)
         IN IF letter.kind = "Char"
            THEN modify_loop(working, Tail(transform_array),
                             new_letters \o letter.letter \o <<WORD_SEP>>)
            ELSE IF letter.pos >= 0 /\ letter.pos < Len(working)
                 THEN modify_loop(working, Tail(transform_array),
                                  new_letters \o working[letter.pos + 1] \o <<WORD_SEP>>)
                 ELSE modify_loop(working, Tail(transform_array), new_letters)

modify_with_array(lemma, transform_array) ==
    modify_loop(Lemma_into_vec(lemma), transform_array, <<>>)

(***************************************************************************)
(* SpecLemma: a Lemma is constructed and then changed by a sequence of     *)
(* calls of its operations                                                 *)
(***************************************************************************)
MaxOps == 3

letter_k == <<"k">>

letter_i == <<"i">>

letter_e == <<"e">>

\* the strings a caller gives to impl From<&str>
StrInputs == {<<>>, <<"i">>, <<"k", "i">>, <<"k", "i", "i">>}

\* the token lists a caller gives to impl From<Vec<String>>
VecInputs == {<<letter_k, letter_i>>, <<<<"k", "i">>, <<>>, letter_k>>, <<<<WORD_SEP>>, letter_i, letter_i>>}

\* the Lemma values a caller can hold
LemmaInputs ==
    {Lemma_from_str(s) : s \in StrInputs} \cup {Lemma_from_vec(v) : v \in VecInputs}

LetterInputs == {letter_k, letter_i}

LetterPlaceType == {"First", "All", "Last"}

ArrayInputs ==
    {<<Place(1), Place(0)>>, <<Char(letter_e), Place(0), Place(5)>>, <<Place(0 - 1), Char(<<>>)>>}

InitLemma ==
    /\ TreeUnused
    /\ fn_arg = [fn |-> "Lemma::from", args |-> <<>>, ops |-> 0]
    /\ fn_ret \in {Some(l) : l \in LemmaInputs}

\* a call `self.<fn>(args)` on the Lemma the caller holds, which leaves it as
\* value
Called(fn, args, value) ==
    /\ fn_arg.ops < MaxOps
    /\ fn_arg' = [fn |-> fn, args |-> args, ops |-> fn_arg.ops + 1]
    /\ fn_ret' = Some(value)
    /\ UNCHANGED tree_vars

Push ==
    \E pushed \in LemmaInputs :
        Called("push", <<pushed>>, Lemma_push(unwrap(fn_ret), pushed))

PushChar ==
    \E pushed \in LetterInputs \cup {<<>>, <<"r", "w">>} :
        Called("push_char", <<pushed>>, push_char(unwrap(fn_ret), pushed))

Replace ==
    \E old \in LetterInputs, new \in {<<>>, letter_e}, kind \in LetterPlaceType :
        Called("replace", <<old, new, kind>>, Lemma_replace(unwrap(fn_ret), old, new, kind))

RemoveChar ==
    \E char \in LetterInputs, remove_type \in LetterPlaceType :
        Called("remove_char", <<char, remove_type>>,
               remove_char(unwrap(fn_ret), char, remove_type))

AddPrefix ==
    \E prefix \in LemmaInputs :
        Called("add_prefix", <<prefix>>, add_prefix(unwrap(fn_ret), prefix))

AddPostfix ==
    \E postfix \in LemmaInputs :
        Called("add_postfix", <<postfix>>, add_postfix(unwrap(fn_ret), postfix))

Double ==
    \E letter \in LetterInputs, position_ \in LetterPlaceType :
        Called("double", <<letter, position_>>, double(unwrap(fn_ret), letter, position_))

DeDouble ==
    \E letter \in LetterInputs, position_ \in LetterPlaceType :
        Called("dedouble", <<letter, position_>>, dedouble(unwrap(fn_ret), letter, position_))

MatchReplace ==
    \E old \in LemmaInputs, new \in LemmaInputs :
        Called("match_replace", <<old, new>>, match_replace(unwrap(fn_ret), old, new))

ModifyWithArray ==
    \E transform_array \in ArrayInputs :
        Called("modify_with_array", <<transform_array>>,
               modify_with_array(unwrap(fn_ret), transform_array))

NextLemma ==
    \/ Push
    \/ PushChar
    \/ Replace
    \/ RemoveChar
    \/ AddPrefix
    \/ AddPostfix
    \/ Double
    \/ DeDouble
    \/ MatchReplace
    \/ ModifyWithArray

SpecLemma == InitLemma /\ [][NextLemma]_vars

(***************************************************************************)
(* Claims on the Lemma (checked under SpecLemma)                           *)
(***************************************************************************)
\* the internal delimited form has two delimiters side by side
ConsecutiveDelimiters(lemma) ==
    \E j \in 1..(Len(lemma) - 1) : lemma[j] = WORD_SEP /\ lemma[j + 1] = WORD_SEP

\* C20: after any sequence of Lemma constructors and operations (from string,
\* from token list, push, push_char, replace, remove_char, add_prefix,
\* add_postfix, double, dedouble, match_replace, modify_with_array) the
\* internal delimited form of the Lemma holds no two consecutive delimiters.
C20_NoConsecutiveDelimiters == ~ConsecutiveDelimiters(unwrap(fn_ret))

\* the places of the tokens equal to old that kind selects
selected_tokens(tokens, old, kind) ==
    LET eq == {j \in 1..Len(tokens) : tokens[j] = old}
    IN CASE kind = "All" -> eq
         [] kind = "First" -> {j \in eq : \A m \in eq : j <= m}
         [] kind = "Last" -> {j \in eq : \A m \in eq : j >= m}

\* the tokens after a replacement of the selected tokens by new, a token
\* replaced by the empty string being no token any more
tokens_replaced(tokens, old, new, kind) ==
    SelectSeq([j \in 1..Len(tokens) |->
                  IF j \in selected_tokens(tokens, old, kind) THEN new ELSE tokens[j]],
              LAMBDA c : c # <<>>)

\* the call that leads to the next state is self.<fn>(..)
Calls(fn) == fn_arg'.fn = fn /\ fn_arg'.ops = fn_arg.ops + 1

\* C21: Lemma.replace(old, new, where) with a single-token old replaces the
\* first, every or the last token equal to old by new and leaves every other
\* token and its boundaries unchanged, also when a token is a grapheme of
\* several codepoints that contains old.
C21_ReplaceIsTokenLevel ==
    [][Calls("replace") =>
          Lemma_into_vec(unwrap(fn_ret')) =
              tokens_replaced(Lemma_into_vec(unwrap(fn_ret)), fn_arg'.args[1],
                              fn_arg'.args[2], fn_arg'.args[3])]_vars

(***************************************************************************)
(* SpecRecompute: a caller builds a tree, runs compute_lexicon, adds one   *)
(* more etymology edge into a node that compute_lexicon resolved and runs  *)
(* compute_lexicon again                                                   *)
(***************************************************************************)
\* connect_etymology on a tree that was never computed
BuildTree == computes = 0 /\ ConnectEtymology

\* the first compute_lexicon
FirstCompute == computes = 0 /\ ComputeStart

\* connect_etymology after a compute_lexicon that returned Ok, its lex being
\* equal to a node that compute_lexicon resolved
ConnectResolved ==
    /\ computes = 1
    /\ result = "Ok"
    /\ ConnectEtymology
    /\ edges'[Len(edges')].target \in updated

\* compute_lexicon is run again on the extended tree
Recompute == computes = 1 /\ result = "none" /\ ComputeStart

NextRecompute ==
    \/ BuildTree
    \/ FirstCompute
    \/ ConnectResolved
    \/ Recompute
    \/ VisitNode
    \/ NextPass
    \/ Return

SpecRecompute == Init /\ [][NextRecompute]_vars

(***************************************************************************)
(* Claims on the recomputation (checked under SpecRecompute)               *)
(***************************************************************************)
\* the second compute_lexicon has returned Ok
Recomputed == computes = 2 /\ Returned_Ok

\* the node that got the new edge
Extended == edges[Len(edges)].target

Outgoing(n) == {j \in 1..Len(edges) : edges[j].source = n}

AllPopulated(S) == \A j \in S : is_some(edges[j].intermediate_word)

\* the word of node n as its current incoming intermediate words give it:
\* agglutinated in order and passed through the global transforms
word_from_incoming(n) ==
    LET updating == [nodes[n] EXCEPT
                        !.word = Some(Lemma_from_vec(ConcatInOrder(Incoming(n))))]
    IN IF is_some(global_transforms)
       THEN apply_globals(unwrap(global_transforms), updating,
                          etymons_of(nodes, edges, n)).lex.word
       ELSE updating.word

\* the intermediate word of edge j as the current word of its source gives it
intermediate_from_source(j) ==
    apply_transforms(edges[j].transforms, nodes[edges[j].source]).lex.word

\* the nodes reached from n along the edges
Descendants(n) == {d \in 1..Len(nodes) : n \in Ancestors(d)}

\* C22: if, after a compute_lexicon, a new etymology edge into an already
\* resolved node is added and compute_lexicon is run again, then afterwards
\* the node's word is the agglutination of all its current incoming
\* intermediate words, and every outgoing intermediate word and every
\* descendant's word is derived from the node's new word (no stale form
\* remains).
C22_RecomputeLeavesNoStaleForm ==
    (Recomputed /\ AllPopulated(Incoming(Extended))) =>
        /\ nodes[Extended].word = word_from_incoming(Extended)
        /\ \A d \in {Extended} \cup Descendants(Extended) :
              \A j \in Outgoing(d) :
                 /\ edges[j].intermediate_word = intermediate_from_source(j)
                 /\ nodes[edges[j].target].word = word_from_incoming(edges[j].target)

(***************************************************************************)
(* Claims on the visit of one node (checked under Spec)                    *)
(***************************************************************************)
\* the next step is the visit of the node `node` (lines 253-338)
VisitStep == pc = "loop" /\ node <= Len(nodes)

\* n is not resolved and has an incoming edge without an intermediate word
Unready(n) == n \notin updated /\ Incoming(n) # {} /\ ~AllPopulated(Incoming(n))

\* the visit of n has generated a word for it and changed no other node
WordGenerated(n) ==
    /\ is_none(nodes[n].word)
    /\ is_some(nodes[n].word_create)
    /\ \E gen \in create_word(word_creator_phonology, unwrap(nodes[n].word_create)) :
          is_some(gen) /\ nodes' = [nodes EXCEPT ![n].word = gen]

\* C23 as stated: during compute_lexicon a node with at least one incoming
\* edge is marked resolved, and its word overwritten, only if every one of its
\* incoming edges has a populated intermediate form; a node with a populated
\* and an unpopulated incoming edge is left untouched in that pass.
C23_UnreadyNodeUntouched ==
    [][VisitStep =>
          /\ (node \notin updated /\ Incoming(node) # {} /\ node \in updated')
                => AllPopulated(Incoming(node))
          /\ Unready(node) => (nodes' = nodes /\ edges' = edges /\ updated' = updated)]_vars

\* C23 amended: a node with at least one incoming edge is marked resolved only
\* if every one of its incoming edges has a populated intermediate form; the
\* visit of a node with an unpopulated incoming edge does not mark it resolved
\* and changes no edge and no other node, and of the node itself it changes
\* nothing but the word, which it sets to a generated one when the node has
\* none and has word_create.
C23_UnreadyNodeOnlyGenerated ==
    [][VisitStep =>
          /\ (node \notin updated /\ Incoming(node) # {} /\ node \in updated')
                => AllPopulated(Incoming(node))
          /\ Unready(node) =>
                /\ edges' = edges
                /\ updated' = updated
                /\ nodes' = nodes \/ WordGenerated(node)]_vars

\* C23 witness: compute_lexicon has returned after a last pass over a node
\* with a populated and an unpopulated incoming edge, which it left unresolved
\* with a generated word
C23_Witness ==
    /\ Returned_Ok
    /\ \E n \in 1..Len(nodes) :
          /\ n \notin updated
          /\ \E i \in Incoming(n), j \in Incoming(n) :
                /\ is_some(edges[i].intermediate_word)
                /\ is_none(edges[j].intermediate_word)
          /\ is_some(nodes[n].word_create)
          /\ is_some(nodes[n].word)

\* the word the caller gave to the Lexis of node n
SuppliedWord(n) == (CHOOSE l \in LexPool : l.id = nodes[n].id).word

\* the first compute_lexicon of the tree is running
FirstComputeRunning == pc = "loop" /\ computes = 1

\* the word of n is one the phonotactic generator makes for its word_create
GeneratedWord(n) ==
    /\ is_none(SuppliedWord(n))
    /\ is_some(nodes[n].word_create)
    /\ is_some(nodes[n].word)
    /\ nodes[n].word \in create_word(word_creator_phonology, unwrap(nodes[n].word_create))

\* C24 as stated: in every state reached during compute_lexicon the word of a
\* node that is not yet resolved is either the user-supplied form or absent,
\* also for a node with word_create and incoming edges that are not populated.
C24_UnresolvedWordSuppliedOrAbsent ==
    FirstComputeRunning =>
        \A n \in 1..Len(nodes) :
            n \notin updated => (is_none(nodes[n].word) \/ nodes[n].word = SuppliedWord(n))

\* C24 amended: in every state reached during the first compute_lexicon of a
\* tree the word of a node that is not yet resolved is the user-supplied form,
\* or absent, or, for a node with word_create and no user-supplied form, a
\* word the phonotactic generator has made for it.
C24_UnresolvedWordSuppliedAbsentOrGenerated ==
    FirstComputeRunning =>
        \A n \in 1..Len(nodes) :
            n \notin updated =>
                \/ is_none(nodes[n].word)
                \/ nodes[n].word = SuppliedWord(n)
                \/ GeneratedWord(n)

\* C24 witness: a visited node with word_create and an unpopulated incoming
\* edge is not resolved and holds a generated word
C24_Witness ==
    /\ FirstComputeRunning
    /\ \E n \in 1..Len(nodes) :
          /\ n < node
          /\ Unready(n)
          /\ GeneratedWord(n)

\* the visit of node n resolves it from its incoming edges
Resolves(n) == n \notin updated /\ n \in updated' /\ Incoming(n) # {}

\* the edges the step populates
Populated == {j \in 1..Len(edges) : is_none(edges[j].intermediate_word)
                                     /\ is_some(edges'[j].intermediate_word)}

\* the historical_metadata of n extended by that of each of its etymons, in
\* the order the graph yields them
merged_metadata(n) == extend_all(nodes[n].historical_metadata, etymons_of(nodes, edges, n))

EtymonsDerivable(n) ==
    /\ n \notin OnCycle
    /\ \A a \in Ancestors(n) :
          /\ a \notin OnCycle
          /\ Incoming(a) = {} => is_some(nodes[a].word)

\* the intermediate word of every edge below n, and the word of the node the
\* edge leads to, are derived from the current word of the edge's source
DerivedBelow(n) ==
    \A d \in {n} \cup Descendants(n) :
        \A j \in Outgoing(d) :
            /\ edges[j].intermediate_word = intermediate_from_source(j)
            /\ nodes[edges[j].target].word = word_from_incoming(edges[j].target)

\* C26: a node that has a user-supplied word and at least one incoming edge,
\* all of whose etymons are derivable, ends compute_lexicon with its word
\* replaced by the agglutination of its incoming intermediates (passed through
\* the global transforms, if any), and all of its descendants are derived from
\* the replaced word, not from the user-supplied one.
C26_SuppliedWordReplaced ==
    Returned_Ok =>
        \A n \in 1..Len(nodes) :
            (is_some(SuppliedWord(n)) /\ Incoming(n) # {} /\ EtymonsDerivable(n)) =>
                /\ n \in updated
                /\ nodes[n].word = word_from_incoming(n)
                /\ DerivedBelow(n)

(***************************************************************************)
(* SpecFailure: Spec for a caller whose global transforms hold a script    *)
(* that cannot be evaluated                                                *)
(***************************************************************************)
\* global_transforms with a second transform that fails on a word of L2
FailureConfigs ==
    {None,
     Some(<<[lex_match |-> LanguageIs("L1"), etymon_match |-> None,
             transforms |-> <<Prefix(g_)>>],
            [lex_match |-> LanguageIs("L2"), etymon_match |-> None,
             transforms |-> <<RhaiScript("missing.rhai")>>]>>)}

InitFailure ==
    /\ nodes = <<>>
    /\ edges = <<>>
    /\ global_transforms \in FailureConfigs
    /\ pc = "idle"
    /\ updated = {}
    /\ node = 0
    /\ changes = 0
    /\ rendered_word = None
    /\ result = "none"
    /\ computes = 0
    /\ fn_arg = None
    /\ fn_ret = None

SpecFailure == InitFailure /\ [][Next]_vars

(***************************************************************************)
(* Claims on a failing compute_lexicon (checked under SpecFailure)         *)
(***************************************************************************)
\* the visit of n resolves it from its incoming edges (line 288)
Resolving(n) == n \notin updated /\ Incoming(n) # {} /\ AllPopulated(Incoming(n))

\* node n as lines 289-298 leave it: the agglutinated word, the merged metadata
Agglutinated(n) ==
    [nodes[n] EXCEPT !.word = Some(Lemma_from_vec(ConcatInOrder(Incoming(n)))),
                     !.historical_metadata = merged_metadata(n)]

\* a global transform returns a TransformError in the visit of n
GlobalFails(n) ==
    /\ Resolving(n)
    /\ is_some(global_transforms)
    /\ ~apply_globals(unwrap(global_transforms), Agglutinated(n),
                      etymons_of(nodes, edges, n)).ok

\* the outgoing edges of n whose transforms return a TransformError in the
\* visit of n, which leaves n as the Lexis lex
FailingEdges(n, lex) ==
    {j \in Outgoing(n) : /\ is_none(edges[j].intermediate_word)
                         /\ ~apply_transforms(edges[j].transforms, lex).ok}

\* an edge transform returns a TransformError in the visit of n
EdgeFails(n) == ~GlobalFails(n) /\ n \in updated' /\ FailingEdges(n, nodes'[n]) # {}

\* what was written before the visit of n is still there after it
NothingRolledBack(n) ==
    /\ \A m \in 1..Len(nodes) : m # n => nodes'[m] = nodes[m]
    /\ Len(nodes') = Len(nodes)
    /\ Len(edges') = Len(edges)
    /\ \A j \in 1..Len(edges) :
          (edges[j].source # n \/ is_some(edges[j].intermediate_word)) => edges'[j] = edges[j]
    /\ updated \subseteq updated'

\* C27: if an edge transform or a global transform returns a TransformError
\* during compute_lexicon, the call returns that error at once without running
\* further passes, and the words, metadata and edge intermediates written
\* before the failure stay in the tree (nothing is rolled back).
C27_ErrorReturnsAtOnce ==
    [][VisitStep =>
          \A n \in {node} :
             /\ (GlobalFails(n) \/ EdgeFails(n)) =>
                   /\ pc' = "idle"
                   /\ result' = "Err"
                   /\ NothingRolledBack(n)
             /\ GlobalFails(n) =>
                   /\ nodes'[n] = Agglutinated(n)
                   /\ updated' = updated \cup {n}
                   /\ edges' = edges
             /\ EdgeFails(n) =>
                   /\ Resolving(n) =>
                         /\ nodes'[n].word = word_from_incoming(n)'
                         /\ nodes'[n].historical_metadata = merged_metadata(n)
                   /\ \A j \in Populated : edges'[j].intermediate_word = intermediate_from_source(j)'
                   /\ Populated =
                         {j \in Outgoing(n) :
                             /\ is_none(edges[j].intermediate_word)
                             /\ \A f \in FailingEdges(n, nodes'[n]) : j > f}]_vars

\* C27 witness: compute_lexicon has returned Err from a global transform; the
\* node keeps the agglutinated word and the merged metadata written before the
\* failure, and its incoming edge the intermediate word
C27_Witness ==
    /\ pc = "idle"
    /\ result = "Err"
    /\ is_some(global_transforms)
    /\ node \in updated
    /\ Incoming(node) # {}
    /\ AllPopulated(Incoming(node))
    /\ Lemma_chars(unwrap(nodes[node].word)) = ConcatInOrder(Incoming(node))
    /\ nodes[node].historical_metadata # OwnMetadata(nodes[node])
    /\ \A j \in Outgoing(node) : is_none(edges[j].intermediate_word)
    /\ Outgoing(node) # {}

(***************************************************************************)
(* Claims on the tree a first compute_lexicon leaves (checked under Spec)  *)
(***************************************************************************)
\* compute_lexicon has returned Ok on a tree built by connect_etymology alone
FreshlyComputed == computes = 1 /\ Returned_Ok

\* n is resolved: derived from its incoming edges or marked as a root
IsDerived(n) == n \in updated

\* all the etymons of n are resolved
AllEtymonsDerived(n) == \A j \in Incoming(n) : IsDerived(edges[j].source)

\* every outgoing edge of n carries what its transforms make of the word of n
OutgoingPopulated(n) ==
    \A j \in Outgoing(n) :
       /\ is_some(edges[j].intermediate_word)
       /\ edges[j].intermediate_word = intermediate_from_source(j)

\* C28 as stated: when compute_lexicon returns Ok on a freshly built tree,
\* every node with no incoming edge that has a word, and every node all of
\* whose incoming edges are populated, has all of its outgoing edges populated,
\* and no node whose incoming edges are all populated is left without its
\* derived word; equivalently a node is derived if and only if all of its
\* etymons are derived.
C28_CompleteFixedPoint ==
    FreshlyComputed =>
       \A n \in 1..Len(nodes) :
          /\ AllPopulated(Incoming(n)) =>
                /\ OutgoingPopulated(n)
                /\ is_some(nodes[n].word)
          /\ IsDerived(n) <=> AllEtymonsDerived(n)

\* C28, amended: when compute_lexicon returns Ok on a freshly built tree,
\* every node with no incoming edge that has a word, and every node with at
\* least one incoming edge all of whose incoming edges are populated, is
\* resolved and has all of its outgoing edges populated, and the second kind
\* has its derived word; a node with incoming edges is derived if and only if
\* all of its etymons are derived, a node without if and only if it has a word.
C28_FixedPointOfDerivableNodes ==
    FreshlyComputed =>
       \A n \in 1..Len(nodes) :
          /\ (Incoming(n) = {} /\ is_some(nodes[n].word)) =>
                IsDerived(n) /\ OutgoingPopulated(n)
          /\ (Incoming(n) # {} /\ AllPopulated(Incoming(n))) =>
                /\ IsDerived(n)
                /\ OutgoingPopulated(n)
                /\ nodes[n].word = word_from_incoming(n)
          /\ Incoming(n) # {} => (IsDerived(n) <=> AllEtymonsDerived(n))
          /\ Incoming(n) = {} => (IsDerived(n) <=> is_some(nodes[n].word))

\* C28 witness: Ok on a freshly built tree in which a root with a word feeds
\* a node that was derived in turn and has populated its own outgoing edge
C28_Witness ==
    /\ FreshlyComputed
    /\ \E n \in 1..Len(nodes) :
          /\ Incoming(n) # {}
          /\ \A j \in Incoming(n) : Incoming(edges[j].source) = {}
          /\ IsDerived(n)
          /\ nodes[n].word = word_from_incoming(n)
          /\ Outgoing(n) # {}
          /\ OutgoingPopulated(n)

(***************************************************************************)
(* SpecOrder: one set of connect_etymology calls is made on two trees in   *)
(* two orders, the second tree after an optional add_lexis, and            *)
(* compute_lexicon runs on both                                            *)
(***************************************************************************)
\* lines 253-338 for the nodes from n on: one pass of the for loop, which a
\* `?` leaves at once
RECURSIVE compute_pass(_, _, _)
compute_pass(t, gts, n) ==
    IF ~t.ok \/ n > Len(t.nodes) THEN t
    ELSE compute_pass(visit_node(t, gts, n, None), gts, n + 1)

\* lines 250-345, with the while loop left after its first pass
compute_passes_once(t, gts, passes) ==
    [tree |-> compute_pass([t EXCEPT !.changes = 0, !.rendered_word = None], gts, 1),
     passes |-> passes + 1]

\* lines 250-345: the while loop, [tree, passes] when it is left
RECURSIVE compute_passes(_, _, _)
compute_passes(t, gts, passes) ==
    with(compute_pass([t EXCEPT !.changes = 0, !.rendered_word = None], gts, 1), LAMBDA pass :
         IF ~pass.ok \/ pass.changes = 0
         THEN [tree |-> pass, passes |-> passes + 1]
         ELSE compute_passes(pass, gts, passes + 1))

\* LanguageTree::compute_lexicon on the graph [nodes, edges]
compute_lexicon(g, gts) ==
    compute_passes([ok |-> TRUE, nodes |-> g.nodes, edges |-> g.edges, updated |-> {},
                    changes |-> 0, rendered_word |-> None], gts, 0)

\* LanguageTree::add_lexis
add_lexis(g, lex) == [g EXCEPT !.nodes = Append(@, lex)]

MaxCalls == 3

\* the Lexis values of the two trees, none with word_create
OrderPool ==
    [a |-> [Lexis_default EXCEPT !.id = "a", !.word = Some(Lemma_from_str(<<"a">>)),
                                 !.language = "L1", !.lexis_type = "root",
                                 !.historical_metadata = [key \in {"k"} |-> "1"]],
     b |-> [Lexis_default EXCEPT !.id = "b", !.language = "L1", !.lexis_type = "word",
                                 !.historical_metadata = [key \in {"k", "j"} |-> "2"]],
     c |-> [Lexis_default EXCEPT !.id = "c", !.language = "L2", !.lexis_type = "word"],
     d |-> [Lexis_default EXCEPT !.id = "d", !.word = Some(Lemma_from_str(<<"t">>)),
                                 !.language = "L2", !.lexis_type = "word",
                                 !.historical_metadata = [key \in {"j"} |-> "3"]]]

\* the connect_etymology calls a caller chooses from
CallPool ==
    {[lex |-> OrderPool.b, etymon |-> OrderPool.a, trans |-> <<T_prefix>>,
      agglutination_order |-> None],
     [lex |-> OrderPool.c, etymon |-> OrderPool.b, trans |-> <<T_script>>,
      agglutination_order |-> None],
     [lex |-> OrderPool.c, etymon |-> OrderPool.b, trans |-> <<T_guarded, T_prefix>>,
      agglutination_order |-> Some(0)],
     [lex |-> OrderPool.d, etymon |-> OrderPool.a, trans |-> <<>>,
      agglutination_order |-> Some(-1)],
     [lex |-> OrderPool.a, etymon |-> OrderPool.d, trans |-> <<T_prefix>>,
      agglutination_order |-> None]}

\* the sequences of 1..MaxCalls different calls that give no Lexis two etymons
CallSequences ==
    {calls \in UNION {[1..len -> CallPool] : len \in 1..MaxCalls} :
        \A i, j \in DOMAIN calls : i # j => calls[i].lex # calls[j].lex}

\* the same calls in another order
Reordered(calls) ==
    {other \in [DOMAIN calls -> Range(calls)] : Range(other) = Range(calls)}

\* the Lexis values named in the calls
LexesOf(calls) == {calls[i].lex : i \in DOMAIN calls} \cup {calls[i].etymon : i \in DOMAIN calls}

\* LanguageTree::new() twice; fn_arg holds the calls still to make on each tree
\* and the second tree, to which the caller may have added a Lexis already
InitOrder ==
    /\ nodes = <<>>
    /\ edges = <<>>
    /\ global_transforms \in GlobalConfigs
    /\ pc = "idle"
    /\ updated = {}
    /\ node = 0
    /\ changes = 0
    /\ rendered_word = None
    /\ result = "none"
    /\ computes = 0
    /\ \E calls \in CallSequences :
          \E other \in Reordered(calls) :
             \E added \in {<<>>} \cup {<<lex>> : lex \in LexesOf(calls)} :
                fn_arg = [first |-> calls, second |-> other,
                          nodes |-> added, edges |-> <<>>]
    /\ fn_ret = None

\* the next connect_etymology call of each tree
ConnectBoth ==
    /\ computes = 0
    /\ fn_arg.first # <<>>
    /\ LET one == Head(fn_arg.first)
           two == Head(fn_arg.second)
           g == connect_etymology(nodes, edges, one.lex, one.etymon, one.trans,
                                  one.agglutination_order)
           h == connect_etymology(fn_arg.nodes, fn_arg.edges, two.lex, two.etymon,
                                  two.trans, two.agglutination_order)
       IN /\ nodes' = g.nodes
          /\ edges' = g.edges
          /\ fn_arg' = [first |-> Tail(fn_arg.first), second |-> Tail(fn_arg.second),
                        nodes |-> h.nodes, edges |-> h.edges]
    /\ UNCHANGED <<global_transforms, pc, updated, node, changes, rendered_word, result,
                   computes, fn_ret>>

\* compute_lexicon on each tree, once every call has been made
ComputeBoth ==
    /\ computes = 0
    /\ fn_arg.first = <<>>
    /\ LET one == compute_lexicon([nodes |-> nodes, edges |-> edges], global_transforms)
           two == compute_lexicon([nodes |-> fn_arg.nodes, edges |-> fn_arg.edges],
                                  global_transforms)
       IN /\ nodes' = one.tree.nodes
          /\ edges' = one.tree.edges
          /\ updated' = one.tree.updated
          /\ changes' = one.tree.changes
          /\ result' = IF one.tree.ok THEN "Ok" ELSE "Err"
          /\ fn_ret' = Some([first |-> one, second |-> two])
    /\ computes' = 1
    /\ UNCHANGED <<global_transforms, pc, node, rendered_word, fn_arg>>

NextOrder == ConnectBoth \/ ComputeBoth

SpecOrder == InitOrder /\ [][NextOrder]_vars

(***************************************************************************)
(* Claims on the insertion order (checked under SpecOrder)                 *)
(***************************************************************************)
\* compute_lexicon has returned on both trees
BothComputed == computes = 1 /\ is_some(fn_ret)

\* the outcome of compute_lexicon on the second tree
Second == unwrap(fn_ret).second

\* the outcome of compute_lexicon on the first tree
First == unwrap(fn_ret).first

\* every Lexis has the same word and historical_metadata in both trees
SameWordsAndMetadata ==
    /\ {nodes[i].id : i \in 1..Len(nodes)}
          = {Second.tree.nodes[j].id : j \in 1..Len(Second.tree.nodes)}
    /\ \A i \in 1..Len(nodes), j \in 1..Len(Second.tree.nodes) :
          nodes[i].id = Second.tree.nodes[j].id =>
             /\ nodes[i].word = Second.tree.nodes[j].word
             /\ nodes[i].historical_metadata = Second.tree.nodes[j].historical_metadata

\* the nodes are not at the same indices in the two trees
OrderDiffers ==
    \E i \in 1..Len(nodes) :
       i > Len(Second.tree.nodes) \/ nodes[i].id # Second.tree.nodes[i].id

\* C29 as stated: for trees in which every node has at most one incoming edge
\* and no node uses word_create, the final word and historical_metadata of
\* every node after compute_lexicon do not depend on the order in which the
\* nodes and edges were inserted; only the number of passes differs.
C29_OrderIndependent == BothComputed => SameWordsAndMetadata

\* C29, amended: for such trees compute_lexicon returns Ok for one insertion
\* order if and only if it does for every other, and when it returns Ok the
\* final word and historical_metadata of every node do not depend on the
\* insertion order.
C29_OrderIndependentWhenOk ==
    BothComputed =>
       /\ First.tree.ok <=> Second.tree.ok
       /\ First.tree.ok => SameWordsAndMetadata

\* C29 witness: two insertion orders of a chain of two derivations; the trees
\* differ in the node order and in the number of passes, both calls return Ok
\* and the last node of the chain has its word in both
C29_Witness ==
    /\ BothComputed
    /\ First.tree.ok
    /\ Second.tree.ok
    /\ OrderDiffers
    /\ First.passes # Second.passes
    /\ SameWordsAndMetadata
    /\ \E i \in 1..Len(nodes) :
          /\ nodes[i].id = "c"
          /\ is_some(nodes[i].word)
          /\ nodes[i].historical_metadata # OrderPool.c.historical_metadata

(***************************************************************************)
(* Claims on what compute_lexicon leaves alone (checked under Spec)        *)
(***************************************************************************)
\* a step of compute_lexicon: the call, a visit, the end of a pass, the return
ComputeStep == pc = "loop" \/ pc' = "loop"

\* no node and no edge is added or removed
SameGraph ==
    /\ Len(nodes') = Len(nodes)
    /\ Len(edges') = Len(edges)
    /\ \A j \in 1..Len(edges) :
          /\ edges'[j].source = edges[j].source
          /\ edges'[j].target = edges[j].target

\* of node n only word and historical_metadata may differ
OnlyWordAndMetadata(n) ==
    nodes'[n] = [nodes[n] EXCEPT !.word = nodes'[n].word,
                                 !.historical_metadata = nodes'[n].historical_metadata]

\* of edge j only intermediate_word may differ
OnlyIntermediateWord(j) ==
    edges'[j] = [edges[j] EXCEPT !.intermediate_word = edges'[j].intermediate_word]

====
